---------------------------- MODULE Spec2Model ----------------------------
(***************************************************************************)
(* Model of the regex prototype (prototypes/regex): the parser, the AST's  *)
(* smart constructors, the Thompson construction, the subset construction, *)
(* the DFA table, the three matchers, find / find_all / subn and the       *)
(* tokenizer.                                                              *)
(*                                                                         *)
(* Strings are sequences of one-character strings.  Python's None is the   *)
(* record NoneV; a raised exception is a record with ok = FALSE.           *)
(***************************************************************************)
EXTENDS Integers, Sequences, FiniteSets, TLC

\* ------------------------------------------------------------------ bounds
\* longest pattern drawn from the pattern characters
MaxPat == 3
\* longest input string of the matcher and the find specifications
MaxStr == 3
\* largest offset passed to find and find_all
MaxOffset == 2
\* finds (tokens) recorded in the trace of a generator; a generator that
\* emits more keeps running, the trace keeps the first MaxEmit
MaxEmit == 4
\* longest input string of the tokenizer specification (besides the two
\* strings of the tokenizer test)
MaxTokStr == 3
MaxDoc == 4
MaxIns == 2
MaxRopes == 3
MaxTimes == 2
MaxIndex == 3

\* ---------------------------------------------------------------- language
\* parser.py: Language.__init__ defaults
escape == "\\"
union == "|"
group_begin == "("
group_end == ")"
either_begin == "["
either_end == "]"
neither_indicator == "^"
zero_or_more == "*"
one_or_more == "+"
range == "-"
any == "."

special_characters ==
    {escape, union, group_begin, group_end, either_begin, either_end,
     zero_or_more, one_or_more, range, any}
repetition_characters == {zero_or_more, one_or_more}
\* end characters without the end of a character class
end_characters_Alt == {group_end}
end_characters == {group_end, either_end}

\* The code points the model's input strings are made of, in code point
\* order: the part of DEFAULT_ALPHABET the model looks at.
AlphabetSeq == <<"a", "b", "c">>
Alphabet == {AlphabetSeq[i] : i \in 1..Len(AlphabetSeq)}

\* --------------------------------------------------------------------- AST
NoneV == [t |-> "None"]
\* the field of an object that refers to the object itself
SelfRef == [t |-> "SelfRef"]

Epsilon == [t |-> "Epsilon"]
\* ast.Any (the name Any is taken by the TLC module)
AnyRegex == [t |-> "Any"]
Character(raw) == IF raw = "" THEN Epsilon ELSE [t |-> "Character", raw |-> raw]

\* Operator.__new__ returns an operand when the other is Epsilon. Python then
\* runs __init__(left, right) on the returned object when it is an instance of
\* the class being constructed, which rebinds that object's own fields.
Operator(cls, left, right) ==
    IF left.t = "Epsilon"
    THEN IF right.t = cls
         THEN [t |-> cls, left |-> left, right |-> SelfRef]
         ELSE right
    ELSE IF right.t = "Epsilon"
    THEN IF left.t = cls
         THEN [t |-> cls, left |-> SelfRef, right |-> right]
         ELSE left
    ELSE [t |-> cls, left |-> left, right |-> right]

Concatenation(left, right) == Operator("Concatenation", left, right)
\* a Union that takes its operands in the other order
Union_Alt(left, right) == Operator("Union", right, left)
Union(left, right) == Operator("Union", left, right)
Repetition(repeated) == [t |-> "Repetition", repeated |-> repeated]
Group(grouped) == [t |-> "Group", grouped |-> grouped]
Either(cr) == [t |-> "Either", characters_and_ranges |-> cr]
Neither(cr) == [t |-> "Neither", characters_and_ranges |-> cr]
Range(start, end) == [t |-> "Range", start |-> start, end |-> end]

\* ------------------------------------------------------------------ parser
\* An Input is the string and pos, the number of code points consumed
\* (Input.position + 1).

\* an annotation whose caret stands one position to the right
annotated_Alt(s, position) ==
    s \o <<"\n">> \o [i \in 1..(position + 2) |-> IF i = position + 2 THEN "^" ELSE " "]

\* Input.annotated(position): the string, a newline, and a line with a
\* caret at position
annotated(s, position) ==
    s \o <<"\n">> \o [i \in 1..(position + 1) |-> IF i = position + 1 THEN "^" ELSE " "]

\* Input.annotated_range(start, end): the string, a newline, and a line with
\* carets at start and end and hyphens between them
annotated_range(s, start, end) ==
    s \o <<"\n">> \o
    [i \in 1..(end + 1) |->
        IF i = start + 1 \/ i = end + 1 THEN "^"
        ELSE IF i > start + 1 /\ i < end + 1 THEN "-" ELSE " "]

Ok(ast, pos) == [ok |-> TRUE, ast |-> ast, pos |-> pos]
Raise(exc, reason, ann) == [ok |-> FALSE, exc |-> exc, reason |-> reason, ann |-> ann]
ParserError(reason, ann) == Raise("ParserError", reason, ann)

finish(result) == IF result = NoneV THEN Epsilon ELSE result
concat_or_return(result, regex) ==
    IF result = NoneV THEN regex ELSE Concatenation(result, regex)

\* parse_expression's branch for a repetition marker, result not None
Repeat(result, character) ==
    LET require_once == character = one_or_more
        r1 == IF require_once THEN Concatenation(result, result) ELSE result
    IN  IF r1.t = "Concatenation"
        THEN Concatenation(r1.left, Repetition(r1.right))
        ELSE Repetition(r1)

\* Input.next(fail_unexpected=True) at the end of the string: the code says
\* `raise Parser(reason, annotation)`, and Parser is no exception class
NextFailUnexpected ==
    Raise("TypeError",
          "exceptions must be old-style classes or derived from BaseException, not Parser",
          <<>>)

\* Parser.parse_character
parse_character(s, pos) ==
    IF pos >= Len(s) THEN NextFailUnexpected
    ELSE LET character == s[pos + 1] IN
         IF character = escape
         THEN IF pos + 1 >= Len(s) THEN NextFailUnexpected
              ELSE Ok(Character(s[pos + 2]), pos + 2)
         ELSE IF character \in special_characters
         THEN ParserError("expected character, found instruction: " \o character,
                          annotated(s, pos))
         ELSE Ok(Character(character), pos + 1)

\* Parser.parse_either_or_neither_body: result is the list built so far
RECURSIVE parse_either_or_neither_body(_, _, _)
parse_either_or_neither_body(s, pos, result) ==
    IF pos >= Len(s) \/ s[pos + 1] = either_end
    THEN Ok({result[i] : i \in 1..Len(result)}, pos)
    ELSE LET character == s[pos + 1] IN
         IF character = escape
         THEN \* character = input.next(): nothing is appended
              IF pos + 1 >= Len(s)
              THEN Raise("StopIteration", "", <<>>)
              ELSE parse_either_or_neither_body(s, pos + 2, result)
         ELSE IF character = range
         THEN IF result = <<>>
              THEN ParserError("range is missing start", annotated(s, pos - 1))
              ELSE LET e == parse_character(s, pos + 1) IN
                   IF ~e.ok THEN e
                   ELSE parse_either_or_neither_body(s, e.pos,
                            Append(SubSeq(result, 1, Len(result) - 1),
                                   Range(result[Len(result)], e.ast)))
         ELSE parse_either_or_neither_body(s, pos + 1,
                  Append(result, Character(character)))

\* Parser.expect_surrounding, after the body returned at body.pos: the end
\* marker is read
expect_end(s, start_position, body, begin, end) ==
    IF ~body.ok THEN body
    ELSE IF body.pos >= Len(s)
    THEN ParserError("unexpected end of string, expected " \o end
                        \o " corresponding to " \o begin,
                     annotated_range(s, start_position, body.pos))
    ELSE IF s[body.pos + 1] # end
    THEN ParserError("expected " \o end \o " corresponding to " \o begin
                        \o ", got " \o s[body.pos + 1],
                     annotated_range(s, start_position, body.pos))
    ELSE Ok(body.ast, body.pos + 1)

\* Parser.parse_either_or_neither; s[pos + 1] is either_begin
parse_either_or_neither(s, pos) ==
    IF pos + 1 >= Len(s)
    THEN \* input.lookahead() inside the with block
         Raise("StopIteration", "", <<>>)
    ELSE IF s[pos + 2] = neither_indicator
    THEN LET b == parse_either_or_neither_body(s, pos + 2, <<>>) IN
         expect_end(s, pos, IF b.ok THEN Ok(Neither(b.ast), b.pos) ELSE b,
                    either_begin, either_end)
    ELSE LET b == parse_either_or_neither_body(s, pos + 1, <<>>) IN
         expect_end(s, pos, IF b.ok THEN Ok(Either(b.ast), b.pos) ELSE b,
                    either_begin, either_end)

\* Parser.parse_expression: the loop, with pos code points consumed and
\* result built so far.  Parser.parse_group is the group_begin branch.
RECURSIVE parse_expression_loop(_, _, _)
parse_expression_loop(s, pos, result) ==
    IF pos >= Len(s) THEN Ok(finish(result), pos)
    ELSE LET character == s[pos + 1] IN
    IF character = escape
    THEN \* self.input: a Parser has no attribute input
         Raise("AttributeError", "'Parser' object has no attribute 'input'", <<>>)
    ELSE IF character \in repetition_characters
    THEN IF result = NoneV
         THEN ParserError(character \o " is not preceded by a repeatable expression",
                          annotated(s, pos))
         ELSE parse_expression_loop(s, pos + 1, Repeat(result, character))
    ELSE IF character = union
    THEN LET right == parse_expression_loop(s, pos + 1, NoneV) IN
         IF ~right.ok THEN right
         ELSE parse_expression_loop(s, right.pos, Union(finish(result), right.ast))
    ELSE IF character = group_begin
    THEN LET inner == parse_expression_loop(s, pos + 1, NoneV)
             g == expect_end(s, pos,
                     IF inner.ok THEN Ok(Group(inner.ast), inner.pos) ELSE inner,
                     group_begin, group_end)
         IN  IF ~g.ok THEN g
             ELSE parse_expression_loop(s, g.pos, concat_or_return(result, g.ast))
    ELSE IF character = either_begin
    THEN LET e == parse_either_or_neither(s, pos) IN
         IF ~e.ok THEN e
         ELSE parse_expression_loop(s, e.pos, concat_or_return(result, e.ast))
    ELSE IF character = any
    THEN parse_expression_loop(s, pos + 1, concat_or_return(result, AnyRegex))
    ELSE IF character \in end_characters
    THEN Ok(finish(result), pos)
    ELSE parse_expression_loop(s, pos + 1, concat_or_return(result, Character(character)))

parse_expression(s, pos) == parse_expression_loop(s, pos, NoneV)

\* Parser.parse
parse(string) ==
    LET result == parse_expression(string, 0) IN
    IF ~result.ok THEN result
    ELSE IF result.pos < Len(string)
    THEN IF string[result.pos + 1] \in end_characters
         THEN ParserError("found unmatched " \o string[result.pos + 1],
                          annotated(string, result.pos))
         ELSE ParserError("unexpected unconsumed input, please report this as a bug",
                          annotated(string, result.pos))
    ELSE [ok |-> TRUE, ast |-> result.ast]


\* ------------------------------------------------------------- NFA (fa.py)
\* Python's None as the result of match
None == -1
\* "RuntimeError: maximum recursion depth exceeded" as the result of match
RecursionError == -2

\* code points of the characters the model uses (ord)
CodePoint ==
    [c \in Alphabet \cup special_characters \cup {neither_indicator} |->
        CASE c = "a" -> 97 [] c = "b" -> 98 [] c = "c" -> 99
          [] c = "\\" -> 92 [] c = "|" -> 124 [] c = "(" -> 40 [] c = ")" -> 41
          [] c = "[" -> 91 [] c = "]" -> 93 [] c = "^" -> 94 [] c = "*" -> 42
          [] c = "+" -> 43 [] c = "-" -> 45 [] c = "." -> 46]

\* The NFAState objects live in an arena: state q (1, 2, ... in the order of
\* creation) has movements mv[q] (a function from code points to states),
\* epsilon_moves eps[q] (a list of states) and is_final fin[q].
EmptyArena == [mv |-> <<>>, eps |-> <<>>, fin |-> <<>>]
NoMoves == [c \in {} |-> 0]

\* NFAState(movements, final, epsilon_moves): the arena with the new state,
\* whose id is Len(fin) of the result
NFAState(ar, movements, final, epsilon_moves) ==
    [mv |-> Append(ar.mv, movements),
     eps |-> Append(ar.eps, epsilon_moves),
     fin |-> Append(ar.fin, final)]
Last(ar) == Len(ar.fin)

\* NFA(start, final) over the arena
NFA(ar, start, final) == [ok |-> TRUE, ar |-> ar, start |-> start, final |-> final]
NFAError(exc) == [ok |-> FALSE, exc |-> exc]

\* Range.__iter__: the characters of the alphabet between start and end
RangeChars(r) ==
    {c \in Alphabet : CodePoint[r.start.raw] <= CodePoint[c]
                      /\ CodePoint[c] <= CodePoint[r.end.raw]}
\* a Range whose start or end is no Character has no raw (AttributeError)
RangeOk(r) == r.start.t = "Character" /\ r.end.t = "Character"

\* Either.to_nfa / Neither.to_nfa: the characters listed
Listed(cr) ==
    {x.raw : x \in {y \in cr : y.t = "Character"}}
        \cup UNION {RangeChars(x) : x \in {y \in cr : y.t = "Range"}}

\* start --c--> final for every c in characters
Fan(ar, characters) ==
    LET a1 == NFAState(ar, NoMoves, TRUE, <<>>)
        final == Last(a1)
        a2 == NFAState(a1, [c \in characters |-> final], FALSE, <<>>)
    IN  NFA(a2, Last(a2), final)

\* X.final.epsilon_moves.append(q) without clearing X.final.is_final
Link_Alt(ar, from, to) ==
    [ar EXCEPT !.eps[from] = Append(@, to)]

\* X.final.epsilon_moves.append(q); X.final.is_final = False
Link(ar, from, to) ==
    [ar EXCEPT !.eps[from] = Append(@, to), !.fin[from] = FALSE]

\* Regex.to_nfa for every variant (ast.py), the new states added to ar
RECURSIVE to_nfa(_, _)
to_nfa(regex, ar) ==
    CASE regex.t = "Epsilon" ->
            LET a1 == NFAState(ar, NoMoves, TRUE, <<>>)
                final == Last(a1)
                a2 == NFAState(a1, NoMoves, FALSE, <<final>>)
            IN  NFA(a2, Last(a2), final)
      [] regex.t = "Any" -> Fan(ar, Alphabet)
      [] regex.t = "Character" -> Fan(ar, {regex.raw})
      [] regex.t = "Concatenation" ->
            LET left == to_nfa(regex.left, ar) IN
            IF ~left.ok THEN left ELSE
            LET right == to_nfa(regex.right, left.ar) IN
            IF ~right.ok THEN right ELSE
            NFA(Link(right.ar, left.final, right.start), left.start, right.final)
      [] regex.t = "Union" ->
            LET left == to_nfa(regex.left, ar) IN
            IF ~left.ok THEN left ELSE
            LET right == to_nfa(regex.right, left.ar) IN
            IF ~right.ok THEN right ELSE
            LET a1 == NFAState(right.ar, NoMoves, FALSE, <<left.start, right.start>>)
                start == Last(a1)
                a2 == NFAState(a1, NoMoves, TRUE, <<>>)
                final == Last(a2)
            IN  NFA(Link(Link(a2, left.final, final), right.final, final), start, final)
      [] regex.t = "Repetition" ->
            LET repeated == to_nfa(regex.repeated, ar) IN
            IF ~repeated.ok THEN repeated ELSE
            LET a1 == NFAState(repeated.ar, NoMoves, TRUE, <<>>)
                final == Last(a1)
                a2 == NFAState(a1, NoMoves, FALSE, <<repeated.start, final>>)
                start == Last(a2)
            IN  NFA(Link(a2, repeated.final, start), start, final)
      [] regex.t = "Group" -> to_nfa(regex.grouped, ar)
      [] regex.t = "Either" ->
            IF \E x \in regex.characters_and_ranges : x.t = "Range" /\ ~RangeOk(x)
            THEN NFAError("AttributeError")
            ELSE Fan(ar, Listed(regex.characters_and_ranges))
      [] regex.t = "Neither" ->
            IF \E x \in regex.characters_and_ranges : x.t = "Range" /\ ~RangeOk(x)
            THEN NFAError("AttributeError")
            ELSE Fan(ar, Alphabet \ Listed(regex.characters_and_ranges))
      [] regex.t = "SelfRef" ->
            \* the object is its own operand: to_nfa recurses without end
            NFAError("RuntimeError")

\* NFAState.epsilon_transition(excluding): the moves k.. of state q, with the
\* shared set `states`
RECURSIVE epsilon_visit(_, _, _, _)
epsilon_visit(ar, q, k, states) ==
    IF k > Len(ar.eps[q]) THEN states
    ELSE LET state == ar.eps[q][k] IN
         IF state \in states
         THEN epsilon_visit(ar, q, k + 1, states)
         ELSE epsilon_visit(ar, q, k + 1,
                            epsilon_visit(ar, state, 1, states \cup {state}))

epsilon_transition(ar, q) == epsilon_visit(ar, q, 1, {})
\* NFAState.epsilon_closure
epsilon_closure(ar, q) == epsilon_visit(ar, q, 1, {q})

\* NFAState.transition calls itself on every state of epsilon_transition():
\* it recurses without end when a state it reaches lies on a cycle of
\* epsilon moves
transition_recurses(ar, q) ==
    \E p \in {q} \cup epsilon_transition(ar, q) : p \in epsilon_transition(ar, p)

\* DFAState.transition: the state moved to, as a set
Direct(ar, q, movement) ==
    IF movement \in DOMAIN ar.mv[q] THEN {ar.mv[q][movement]} ELSE {}

\* NFAState.transition, when it returns: the states of the list it returns
\* (the list may name a state several times; match asks only which states
\* are in it)
transition(ar, q, movement) ==
    Direct(ar, q, movement)
        \cup UNION {Direct(ar, p, movement) : p \in epsilon_transition(ar, q)}

contains_final(ar, states) == \E state \in states : ar.fin[state]

\* NFA.match: one turn of the for loop, at index i (0-based)
nfa_match_iter(nfa, m, character) ==
    IF \E q \in m.states : transition_recurses(nfa.ar, q)
    THEN [m EXCEPT !.pc = "raised"]
    ELSE LET states == UNION {transition(nfa.ar, q, character) : q \in m.states} IN
         IF contains_final(nfa.ar, states)
         THEN [m EXCEPT !.states = states, !.last_successful_end = m.i, !.i = m.i + 1]
         ELSE IF states = {}
         THEN [m EXCEPT !.states = states, !.pc = "after"]
         ELSE [m EXCEPT !.states = states, !.i = m.i + 1]

\* the statements after the loop without the epsilon moves of the states
nfa_match_after_Alt(nfa, m, string) ==
    [m EXCEPT !.pc = "returned",
              !.last_successful_end =
                  IF contains_final(nfa.ar, m.states) THEN Len(string) ELSE @]

\* NFA.match: the statements after the loop
nfa_match_after(nfa, m, string) ==
    LET states == UNION {epsilon_transition(nfa.ar, q) : q \in m.states} IN
    [m EXCEPT !.states = states, !.pc = "returned",
              !.last_successful_end =
                  IF contains_final(nfa.ar, states) THEN Len(string) ELSE @]

nfa_match_start(nfa) ==
    [pc |-> "loop", i |-> 0, states |-> {nfa.start}, last_successful_end |-> None]

\* one step of NFA.match on string
nfa_match_step(nfa, m, string) ==
    IF m.pc = "loop" /\ m.i < Len(string) THEN nfa_match_iter(nfa, m, string[m.i + 1])
    ELSE IF m.pc \in {"loop", "after"} THEN nfa_match_after(nfa, m, string)
    ELSE m

RECURSIVE nfa_match_run(_, _, _)
nfa_match_run(nfa, m, string) ==
    IF m.pc = "returned" THEN m.last_successful_end
    ELSE IF m.pc = "raised" THEN RecursionError
    ELSE nfa_match_run(nfa, nfa_match_step(nfa, m, string), string)

\* NFA.match(string)
nfa_match(nfa, string) == nfa_match_run(nfa, nfa_match_start(nfa), string)

\* ------------------------------------------------------------- DFA (fa.py)
\* A DFAState made by to_dfa is named by the closure (a set of NFA states) it
\* was made for: to_dfa keeps exactly one DFAState per closure in `states`.

\* the elements of a set in some order (the order a dict or a set is
\* iterated in)
RECURSIVE SetToSeq(_)
SetToSeq(S) ==
    IF S = {} THEN <<>>
    ELSE LET x == CHOOSE x \in S : TRUE IN <<x>> \o SetToSeq(S \ {x})

\* the movements of the states of a closure without the epsilon closures of
\* the states moved to
_get_movements_to_closures_Alt(nfa, closure) ==
    LET moving(c) == {q \in closure : c \in DOMAIN nfa.ar.mv[q]}
        chars == UNION {DOMAIN nfa.ar.mv[q] : q \in closure}
    IN  [c \in chars |-> {nfa.ar.mv[q][c] : q \in moving(c)}]

\* NFA._get_movements_to_closures
_get_movements_to_closures(nfa, closure) ==
    LET moving(c) == {q \in closure : c \in DOMAIN nfa.ar.mv[q]}
        chars == UNION {DOMAIN nfa.ar.mv[q] : q \in closure}
    IN  [c \in chars |->
            UNION {epsilon_closure(nfa.ar, nfa.ar.mv[q][c]) : q \in moving(c)}]

\* NFA.to_dfa: the while loop
RECURSIVE to_dfa_loop(_, _, _, _)
to_dfa_loop(nfa, new_states, states, movements) ==
    IF new_states = <<>> THEN [states |-> states, movements |-> movements]
    ELSE LET closure == Head(new_states)
             m == _get_movements_to_closures(nfa, closure)
             fresh == {m[c] : c \in DOMAIN m} \ states
         IN  to_dfa_loop(nfa, Tail(new_states) \o SetToSeq(fresh),
                         states \cup fresh, movements @@ (closure :> m))

\* NFA.to_dfa, with NFA._get_state_from_closure for is_final
to_dfa(nfa) ==
    LET closure == epsilon_closure(nfa.ar, nfa.start)
        d == to_dfa_loop(nfa, <<closure>>, {closure}, <<>>)
    IN  [start |-> closure,
         states |-> d.states,
         movements |-> d.movements,
         is_final |-> [cl \in d.states |-> contains_final(nfa.ar, cl)]]

dfa_match_start(dfa) ==
    [pc |-> "loop", i |-> 0, state |-> dfa.start, last_successful_end |-> None]

\* DFA.match: one turn of the for loop, and its else branch
dfa_match_step(dfa, m, string) ==
    IF m.pc = "loop" /\ m.i < Len(string)
    THEN LET character == string[m.i + 1] IN
         IF character \notin DOMAIN dfa.movements[m.state]
         THEN [m EXCEPT !.pc = "returned"]
         ELSE LET state == dfa.movements[m.state][character] IN
              [m EXCEPT !.state = state, !.i = m.i + 1,
                        !.last_successful_end = IF dfa.is_final[state] THEN m.i ELSE @]
    ELSE IF m.pc = "loop"
    THEN [m EXCEPT !.pc = "returned",
                   !.last_successful_end = IF dfa.is_final[m.state] THEN 0 ELSE None]
    ELSE m

RECURSIVE dfa_match_run(_, _, _)
dfa_match_run(dfa, m, string) ==
    IF m.pc = "returned" THEN m.last_successful_end
    ELSE dfa_match_run(dfa, dfa_match_step(dfa, m, string), string)

\* DFA.match(string)
dfa_match(dfa, string) == dfa_match_run(dfa, dfa_match_start(dfa), string)

\* ------------------------------------------------------- DFATable (fa.py)
\* DFA.to_dfa_table: the for loop over state.movements, cs the movements
\* still to visit; t holds table, state_ids, final_ids and new_states
RECURSIVE to_dfa_table_moves(_, _, _, _)
to_dfa_table_moves(dfa, state, cs, t) ==
    IF cs = <<>> THEN t
    ELSE LET movement == Head(cs)
             transition_state == dfa.movements[state][movement]
             known == transition_state \in DOMAIN t.state_ids
             state_id == Len(t.table)
             t1 == IF known THEN t
                   ELSE [table |-> Append(t.table, NoMoves),
                         state_ids |-> t.state_ids @@ (transition_state :> state_id),
                         final_ids |-> IF dfa.is_final[transition_state]
                                       THEN t.final_ids \cup {state_id}
                                       ELSE t.final_ids,
                         new_states |-> Append(t.new_states, transition_state)]
             t2 == [t1 EXCEPT !.table[t1.state_ids[state] + 1] =
                        @ @@ (movement :> t1.state_ids[transition_state])]
         IN  to_dfa_table_moves(dfa, state, Tail(cs), t2)

\* the movements of a state in the order `order` lists the characters
MovesInOrder(dfa, state, order) ==
    SelectSeq(order, LAMBDA c : c \in DOMAIN dfa.movements[state])

\* DFA.to_dfa_table: the while loop
RECURSIVE to_dfa_table_loop(_, _, _)
to_dfa_table_loop(dfa, order, t) ==
    IF t.new_states = <<>> THEN t
    ELSE LET state == Head(t.new_states) IN
         to_dfa_table_loop(dfa, order,
             to_dfa_table_moves(dfa, state, MovesInOrder(dfa, state, order),
                                [t EXCEPT !.new_states = Tail(@)]))

\* to_dfa_table without the test of the start state's is_final
to_dfa_table_Alt(dfa, order) ==
    LET t == to_dfa_table_loop(dfa, order,
                 [table |-> <<NoMoves>>,
                  state_ids |-> (dfa.start :> 0),
                  final_ids |-> {},
                  new_states |-> <<dfa.start>>])
    IN  [table |-> t.table, finals |-> t.final_ids]

\* DFA.to_dfa_table; a dict is iterated in the order `order` lists its keys
to_dfa_table(dfa, order) ==
    LET t == to_dfa_table_loop(dfa, order,
                 [table |-> <<NoMoves>>,
                  state_ids |-> (dfa.start :> 0),
                  final_ids |-> IF dfa.is_final[dfa.start] THEN {0} ELSE {},
                  new_states |-> <<dfa.start>>])
    IN  [table |-> t.table, finals |-> t.final_ids]

table_match_start == [pc |-> "loop", i |-> 0, state |-> 0, success |-> None]

\* DFATable.match: one turn of the for loop, and its else branch
table_match_step(tab, m, string) ==
    IF m.pc = "loop" /\ m.i < Len(string)
    THEN LET inputs == tab.table[m.state + 1]
             character == string[m.i + 1]
         IN  IF character \notin DOMAIN inputs
             THEN [m EXCEPT !.pc = "returned"]
             ELSE LET state == inputs[character] IN
                  [m EXCEPT !.state = state, !.i = m.i + 1,
                            !.success = IF state \in tab.finals THEN m.i ELSE @]
    ELSE IF m.pc = "loop"
    THEN [m EXCEPT !.pc = "returned",
                   !.success = IF m.state \in tab.finals THEN 0 ELSE @]
    ELSE m

RECURSIVE table_match_run(_, _, _)
table_match_run(tab, m, string) ==
    IF m.pc = "returned" THEN m.success
    ELSE table_match_run(tab, table_match_step(tab, m, string), string)

\* DFATable.match(string)
table_match(tab, string) == table_match_run(tab, table_match_start, string)

\* ------------------------------------------------------------ compilation
\* Regex.to_nfa, to_dfa, to_dfa_table of a parsed pattern: the three matchers
\* the tests build for it
Compiled(regex, order) ==
    LET nfa == to_nfa(regex, EmptyArena) IN
    IF ~nfa.ok THEN [ok |-> FALSE, exc |-> nfa.exc]
    ELSE LET dfa == to_dfa(nfa) IN
         [ok |-> TRUE, nfa |-> nfa, dfa |-> dfa, table |-> to_dfa_table(dfa, order)]

\* matcher.match(string) for the matcher of the kind named
Match(c, kind, s) ==
    CASE kind = "NFA" -> nfa_match(c.nfa, s)
      [] kind = "DFA" -> dfa_match(c.dfa, s)
      [] kind = "DFATable" -> table_match(c.table, s)

\* ------------------------------------------------- MatcherBase (matcher.py)
\* string[start:end] and string[start:] for 0 <= start
Slice(string, start, end) == SubSeq(string, start + 1, end)
From(string, start) == SubSeq(string, start + 1, Len(string))

\* Find(string, Span(start, end))
Find(string, start, end) == [t |-> "Find", string |-> string, start |-> start, end |-> end]
\* an exception leaving find
Raised == [t |-> "RuntimeError"]
\* Find.match
FindMatch(find) == Slice(find.string, find.start, find.end)

\* a find that takes the end match returns for the end of the span
RECURSIVE find_Alt(_, _, _, _)
find_Alt(c, kind, string, offset) ==
    IF Len(string) >= offset
    THEN LET end == Match(c, kind, From(string, offset)) IN
         IF end = RecursionError THEN Raised
         ELSE IF end # None THEN Find(string, offset, end)
         ELSE find_Alt(c, kind, string, offset + 1)
    ELSE NoneV

\* MatcherBase.find(string, offset)
RECURSIVE find(_, _, _, _)
find(c, kind, string, offset) ==
    IF Len(string) >= offset
    THEN LET end == Match(c, kind, From(string, offset)) IN
         IF end = RecursionError THEN Raised
         ELSE IF end # None THEN Find(string, offset, offset + end)
         ELSE find(c, kind, string, offset + 1)
    ELSE NoneV

\* MatcherBase.find_all(string, offset): the generator's frame.  pc is
\* "start" before the first next(), "yield" when suspended at the yield with
\* `find` handed out, "next" when the consumer has asked for the next find,
\* "done" after StopIteration, "raised" after an exception.
find_all_start == [pc |-> "start", find |-> NoneV]

\* the offset at which find_all resumes the search after yielding the find f
find_all_resume(offset, f) == offset + f.end

\* one next() on the generator
find_all_next(c, kind, string, offset, g) ==
    LET f == IF g.pc = "start"
             THEN find(c, kind, string, offset)
             ELSE find(c, kind, string, find_all_resume(offset, g.find))
    IN  IF f = Raised THEN [pc |-> "raised", find |-> NoneV]
        ELSE IF f = NoneV THEN [pc |-> "done", find |-> NoneV]
        ELSE [pc |-> "yield", find |-> f]

\* substitution: a unicode string, or a function of the find
sub(substitution, match) ==
    IF substitution.t = "unicode" THEN substitution.s
    ELSE \* the function the model passes: the matched text in brackets
         <<"<">> \o FindMatch(match) \o <<">">>

\* MatcherBase.subn: the frame.  pc is "first" before the first find, "while"
\* at the head of the while loop, "returned" at the return.
subn_start(string) ==
    [pc |-> "first", string |-> string, result |-> <<>>, n |-> 0]

\* n += 1; result.append(string[:start]); result.append(sub(match));
\* string = string[end:]
subn_replace(f, substitution, match) ==
    [f EXCEPT !.n = @ + 1,
              !.result = @ \o Slice(f.string, 0, match.start) \o sub(substitution, match),
              !.string = From(f.string, match.end)]

\* result.append(string); return u"".join(result), n
subn_return(f) == [f EXCEPT !.pc = "returned", !.result = @ \o f.string]

\* one step of subn
subn_step(c, kind, substitution, f) ==
    LET match == find(c, kind, f.string, 0) IN
    IF match = Raised THEN [f EXCEPT !.pc = "raised"]
    ELSE IF f.pc = "first"
    THEN IF match # NoneV
         THEN [subn_replace(f, substitution, match) EXCEPT !.pc = "while"]
         ELSE subn_return(f)
    ELSE IF f.pc = "while"
    THEN IF f.string = <<>> THEN subn_return(f)
         ELSE IF match = NoneV \/ Len(FindMatch(match)) = 0 THEN subn_return(f)
         ELSE subn_replace(f, substitution, match)
    ELSE f

\* ------------------------------------------------ Tokenizer (tokenizer.py)
\* Tokenizer.__init__: parse(regex).compile() for every definition; compile
\* returns the first of to_dfa_table, to_dfa, to_nfa that returns
compile(regex, order) == Compiled(regex, order)
TokenizerInit(definitions, order) ==
    [definitions |->
        [k \in 1..Len(definitions) |->
            [matcher |-> compile(parse(definitions[k].regex).ast, order),
             token_cls |-> definitions[k].token_cls]]]

\* token_cls(lexeme, Span(start, end))
Token(token_cls, lexeme, start, end) ==
    [cls |-> token_cls, lexeme |-> lexeme, start |-> start, end |-> end]

\* Tokenizer.match_token: the definitions k.. are still to try
RECURSIVE match_token_from(_, _, _, _)
match_token_from(definitions, k, string, start) ==
    IF k > Len(definitions) THEN NoneV
    ELSE LET end == Match(definitions[k].matcher, "DFATable", string) IN
         IF end # None
         THEN [t |-> "tuple",
               token |-> Token(definitions[k].token_cls, Slice(string, 0, end),
                               start, start + end),
               string |-> From(string, end),
               start |-> start + end]
         ELSE match_token_from(definitions, k + 1, string, start)

\* match_token with Span(start, end) for Span(start, start + end)
match_token_Alt(definitions, string, start) ==
    LET token == match_token_from(definitions, 1, string, start) IN
    IF token = NoneV THEN token
    ELSE [token EXCEPT !.token.end = @ - start]

match_token(definitions, string, start) == match_token_from(definitions, 1, string, start)

\* Tokenizer.__call__: the generator's frame
tokenizer_start(string) ==
    [pc |-> "start", string |-> string, start |-> 0, token |-> NoneV, error |-> NoneV]

TokenizerError(start) ==
    [reason |-> "string cannot be further consumed at position " \o ToString(start),
     position |-> start]

\* one next() on the generator
tokenizer_next(definitions, g) ==
    IF g.string = <<>> THEN [g EXCEPT !.pc = "done", !.token = NoneV]
    ELSE LET token == match_token(definitions, g.string, g.start) IN
         IF token = NoneV
         THEN [g EXCEPT !.pc = "raised", !.token = NoneV, !.error = TokenizerError(g.start)]
         ELSE [g EXCEPT !.pc = "yield", !.token = token.token,
                        !.string = token.string, !.start = token.start]

\* ====================================================================== OT
\* string[i:j], string[i:] and string[-n:] of Python for i, j >= 0 and n > 0:
\* a bound beyond the end of the string is the end of the string
PySlice(string, i, j) ==
    LET hi == IF j > Len(string) THEN Len(string) ELSE j
    IN  IF i >= hi THEN <<>> ELSE SubSeq(string, i + 1, hi)
PyFrom(string, i) == PySlice(string, i, Len(string))
PyLast(string, n) ==
    IF n >= Len(string) THEN string ELSE PyFrom(string, Len(string) - n)

\* Insert(start, string) and Delete(start, string)
Insert(start, string) == [t |-> "Insert", start |-> start, string |-> string]
Delete(start, string) == [t |-> "Delete", start |-> start, string |-> string]
\* Operation.__len__ and Operation.end
len(operation) == Len(operation.string)
end(operation) == operation.start + len(operation)

\* a Python list of operations
List(ops) == [t |-> "list", ops |-> ops]

\* Insert._include_insert(self, other)
Insert_include_insert(self, other) ==
    IF self.start >= other.start
    THEN List(<<Insert(self.start + len(other), self.string)>>)
    ELSE List(<<self>>)

\* Insert._include_delete(self, other): the first branch returns the
\* Insert itself, not a list
Insert_include_delete(self, other) ==
    IF self.start > end(other)
    THEN Insert(self.start - len(other), self.string)
    ELSE IF self.start > other.start
    THEN List(<<Insert(other.start, self.string)>>)
    ELSE List(<<self>>)

\* Delete._include_insert(self, other)
Delete_include_insert(self, other) ==
    IF end(self) <= other.start
    THEN List(<<self>>)
    ELSE IF other.start <= self.start
    THEN List(<<Delete(self.start + len(other), self.string)>>)
    ELSE List(<<Delete(self.start, PySlice(self.string, 0, other.start - self.start)),
                Delete(other.start + len(other),
                       PyFrom(self.string, other.start - self.start))>>)

\* Delete._include_delete(self, other)
Delete_include_delete(self, other) ==
    IF other.start >= end(self)
    THEN List(<<self>>)
    ELSE IF self.start >= end(other)
    THEN List(<<Delete(self.start - len(other), self.string)>>)
    ELSE IF other.start <= self.start
    THEN IF end(self) <= end(other)
         THEN List(<<Delete(self.start, <<>>)>>)
         ELSE List(<<Delete(other.start, PyLast(self.string, end(self) - end(other)))>>)
    ELSE IF end(other) >= end(self)
         THEN List(<<Delete(self.start, PyFrom(self.string, other.start - self.start))>>)
         ELSE List(<<Delete(self.start,
                            PySlice(self.string, 0, other.start) \o
                            PyFrom(self.string, other.start + len(other)))>>)

\* Operation.include(self, operation)
include(self, operation) ==
    IF operation.t = "Insert"
    THEN IF self.t = "Insert" THEN Insert_include_insert(self, operation)
         ELSE Delete_include_insert(self, operation)
    ELSE IF operation.t = "Delete"
    THEN IF self.t = "Insert" THEN Insert_include_delete(self, operation)
         ELSE Delete_include_delete(self, operation)
    ELSE Raise("NotImplementedError", "include for", <<>>)

\* Insert.undo and Delete.undo: Insert.undo reads self.position, an
\* attribute no Operation has
undo(operation) ==
    IF operation.t = "Insert"
    THEN [t |-> "Raise", exc |-> "AttributeError",
          reason |-> "'Insert' object has no attribute 'position'"]
    ELSE Insert(operation.start, operation.string)

\* the document after an operation, as the docstrings of Insert and Delete
\* draw it: FOOBAZ with Insert(3, "BAR") is FOOBARBAZ, FOOBAR with
\* Delete(2, "OB") is FOAR
apply(operation, doc) ==
    IF operation.t = "Insert"
    THEN PySlice(doc, 0, operation.start) \o operation.string \o PyFrom(doc, operation.start)
    ELSE PySlice(doc, 0, operation.start) \o PyFrom(doc, end(operation))
\* the document after a list of operations, applied in order
RECURSIVE apply_all(_, _)
apply_all(ops, doc) ==
    IF ops = <<>> THEN doc ELSE apply_all(Tail(ops), apply(Head(ops), doc))

\* ==================================================================== rope
\* Ropes are objects: a heap h is the sequence of the ropes made so far, and
\* a rope refers to its operands by their index in h.
RopeString(data) == [t |-> "String", data |-> data]
RopeConcatenation(left, right) == [t |-> "Concatenation", left |-> left, right |-> right]
RopeRepetition(times, obj) == [t |-> "Repetition", times |-> times, rope |-> obj]

\* what a call returned, or the exception it raised
Return(value) == [ok |-> TRUE, value |-> value]
RopeRaise(exc) == [ok |-> FALSE, exc |-> exc]

\* __nonzero__ of String, Concatenation and Repetition. A Repetition whose
\* rope is the Repetition itself asks itself without end.
RECURSIVE rope_nonzero(_, _)
rope_nonzero(h, id) ==
    LET o == h[id] IN
    CASE o.t = "String" -> Return(o.data # <<>>)
      [] o.t = "Concatenation" ->
            LET l == rope_nonzero(h, o.left) IN
            IF ~l.ok \/ l.value THEN l ELSE rope_nonzero(h, o.right)
      [] o.t = "Repetition" ->
            IF o.rope = id THEN RopeRaise("RuntimeError") ELSE rope_nonzero(h, o.rope)

\* __len__ of String, Concatenation and Repetition
RECURSIVE rope_len(_, _)
rope_len(h, id) ==
    LET o == h[id] IN
    CASE o.t = "String" -> Return(Len(o.data))
      [] o.t = "Concatenation" ->
            LET l == rope_len(h, o.left) IN
            IF ~l.ok THEN l
            ELSE LET r == rope_len(h, o.right) IN
                 IF ~r.ok THEN r ELSE Return(l.value + r.value)
      [] o.t = "Repetition" ->
            IF o.rope = id THEN RopeRaise("RuntimeError")
            ELSE LET r == rope_len(h, o.rope) IN
                 IF ~r.ok THEN r ELSE Return(o.times * r.value)

\* s repeated n times
RECURSIVE Times(_, _)
Times(n, s) == IF n <= 0 THEN <<>> ELSE s \o Times(n - 1, s)

\* __iter__ of String, Concatenation and Repetition: the code points the
\* iterator yields, and whether it then raises instead of stopping
RECURSIVE rope_iter(_, _)
rope_iter(h, id) ==
    LET o == h[id] IN
    CASE o.t = "String" -> [s |-> o.data, err |-> FALSE]
      [] o.t = "Concatenation" ->
            LET l == rope_iter(h, o.left) IN
            IF l.err THEN l
            ELSE LET r == rope_iter(h, o.right) IN [s |-> l.s \o r.s, err |-> r.err]
      [] o.t = "Repetition" ->
            IF o.rope = id THEN [s |-> <<>>, err |-> TRUE]
            ELSE LET r == rope_iter(h, o.rope) IN
                 IF r.err THEN r ELSE [s |-> Times(o.times, r.s), err |-> FALSE]

\* Rope.__eq__(self, other): izip stops with the shorter of the two
\* iterators, and no length is compared. An iterator that raises instead of
\* stopping is one over a Repetition that is its own rope: the chain
\* iterators nest without a depth check and the interpreter overflows its
\* stack.
rope_eq(h, self, other) ==
    LET a == rope_iter(h, self)
        b == rope_iter(h, other)
        n == IF Len(a.s) < Len(b.s) THEN Len(a.s) ELSE Len(b.s)
    IN  IF \E i \in 1..n : a.s[i] # b.s[i] THEN Return(FALSE)
        ELSE IF Len(a.s) = n
        THEN IF a.err THEN RopeRaise("SegmentationFault") ELSE Return(TRUE)
        ELSE IF b.err THEN RopeRaise("SegmentationFault") ELSE Return(TRUE)

\* __getitem__(index) of String, Concatenation and Repetition for an int
\* index >= 0. Concatenation raises ValueError when len(self) > index and
\* looks into an operand when the operand's length is less than the index.
RECURSIVE rope_getitem(_, _, _)
rope_getitem(h, id, index) ==
    LET o == h[id] IN
    CASE o.t = "String" ->
            IF index < Len(o.data) THEN Return(o.data[index + 1])
            ELSE RopeRaise("IndexError")
      [] o.t = "Concatenation" ->
            LET n == rope_len(h, id) IN
            IF ~n.ok THEN n
            ELSE IF n.value > index THEN RopeRaise("ValueError")
            ELSE IF rope_len(h, o.left).value < index
            THEN rope_getitem(h, o.left, index)
            ELSE LET index2 == index - rope_len(h, o.left).value IN
                 IF rope_len(h, o.right).value < index2
                 THEN rope_getitem(h, o.right, index2)
                 ELSE RopeRaise("IndexError")
      [] o.t = "Repetition" ->
            IF o.rope = id THEN RopeRaise("RuntimeError")
            ELSE LET n == rope_len(h, o.rope) IN
                 IF ~n.ok THEN n
                 ELSE IF n.value = 0 THEN RopeRaise("ZeroDivisionError")
                 ELSE rope_getitem(h, o.rope, index % n.value)

\* __getitem__(slice(start, stop)) of String, Concatenation and Repetition;
\* start is NoneV for self[:stop]. String takes no slice. The other two
\* hand rope(u"").join the generator over slice.indices(len(self)), the
\* tuple (start, stop, step): join asks for self[start], and what that
\* returns is a code point, which rope(item, _strict=True) refuses.
rope_getslice(h, id, start, stop) ==
    LET o == h[id] IN
    IF o.t = "String" THEN RopeRaise("TypeError")
    ELSE LET n == rope_len(h, id) IN
         IF ~n.ok THEN n
         ELSE LET first == IF start = NoneV THEN 0
                           ELSE IF start.n > n.value THEN n.value ELSE start.n
                  item == rope_getitem(h, id, first)
              IN  IF ~item.ok THEN item ELSE RopeRaise("TypeError")

\* Rope.inserted(self, position, other): self[:position] comes first
rope_inserted(h, self, position, other) ==
    rope_getslice(h, self, NoneV, position)

\* Rope.deleted(self, position, other)
rope_deleted(h, self, position, other) ==
    LET n == rope_len(h, self) IN
    IF ~n.ok THEN n
    ELSE IF ~(0 <= position /\ position <= n.value) THEN RopeRaise("ValueError")
    ELSE LET m == rope_len(h, other) IN
         IF ~m.ok THEN m
         ELSE IF n.value - position < m.value THEN RopeRaise("TypeError")
         ELSE rope_getslice(h, self, [n |-> position], position + m.value)

\* a call's outcome together with the heap after it
After(h, result) == [heap |-> h, result |-> result]

\* rope(obj) for a unicode string obj: a new String
rope(h, obj) == After(Append(h, RopeString(obj)), Return(Len(h) + 1))

\* Rope.__add__(self, other): a new Concatenation
rope_add(h, self, other) ==
    After(Append(h, RopeConcatenation(self, other)), Return(Len(h) + 1))

\* Repetition.__init__(self, times, obj), which Python runs on whatever
\* Repetition.__new__ returned if that is a Repetition
Repetition_init(h, self, times, obj) ==
    IF times <= 0 THEN After(h, RopeRaise("ValueError"))
    ELSE After([h EXCEPT ![self] = RopeRepetition(times, obj)], Return(self))

\* Rope.__mul__(self, times), that is Repetition(times, self):
\* Repetition.__new__ and then __init__ on a returned Repetition
rope_mul(h, obj, times) ==
    LET nz == rope_nonzero(h, obj) IN
    IF ~nz.ok THEN After(h, nz)
    ELSE IF ~nz.value \/ times = 1
    THEN IF h[obj].t = "Repetition"
         THEN Repetition_init(h, obj, times, obj)
         ELSE After(h, Return(obj))
    ELSE IF times <= 0
    THEN rope(h, <<>>)
    ELSE Repetition_init(Append(h, RopeRepetition(NoneV, NoneV)), Len(h) + 1, times, obj)

\* ============================================================ state machine
\* all sequences over S of length at most n
Seqs(S, n) == UNION {[1..k -> S] : k \in 0..n}

\* the characters patterns are drawn from, and further patterns
PatternChars == {"a", "b", zero_or_more, one_or_more, union, group_begin, group_end, any}
ExtraPatterns ==
    {<<"a", "|", "a", "b", "c">>, <<"(", "a", "b", ")", "+">>,
     <<"a", "b", "*", "c">>, <<"(", "a", "*", ")", "*">>,
     <<"[", "a", "b", "]">>, <<"[", "^", "a", "]", "b">>, <<"[", "a", "-", "b", "]", "c">>,
     <<"|", "a", "|", "b">>, <<"\\", "a">>,
     <<"[", "]">>, <<"[", "b", "-", "a", "]">>,
     <<"a", "|", "b", "*">>, <<"a", "|", "b", "|", "c">>}
Patterns == Seqs(PatternChars, MaxPat) \cup ExtraPatterns
\* the patterns of the find specification
FindPatterns ==
    {<<>>, <<"a">>, <<"a", "b">>, <<"a", "*">>, <<"a", "+">>, <<"a", "|", "b">>,
     <<"(", "a", "b", ")", "+">>, <<"a", "b", "*">>, <<"a", "*", "*">>, <<".">>,
     <<"a", "|", "a", "b", "b">>, <<"b", "*", "a">>}
InputChars == {"a", "b"}
Kinds == {"NFA", "DFA", "DFATable"}

\* all characters of the model in code point order, and the two orders the
\* model lets a dict be iterated in
AllChars ==
    <<"(", ")", "*", "+", "-", ".", "[", "\\", "]", "^", "a", "b", "c", "|">>
Reverse(q) == [i \in 1..Len(q) |-> q[Len(q) + 1 - i]]
DictOrders == {AllChars, Reverse(AllChars)}

\* the definitions of the tokenizer test, and further lists
TestDefinitions ==
    <<[regex |-> <<"a", "b", "+">>, token_cls |-> "AB"],
      [regex |-> <<"a", "+">>, token_cls |-> "A"],
      [regex |-> <<"b", "+">>, token_cls |-> "B"]>>
DefinitionLists ==
    {TestDefinitions,
     <<TestDefinitions[2], TestDefinitions[1], TestDefinitions[3]>>,
     <<TestDefinitions[3], TestDefinitions[2], TestDefinitions[1]>>,
     <<[regex |-> <<"a", "b">>, token_cls |-> "AB"],
       [regex |-> <<"b">>, token_cls |-> "B"]>>,
     <<[regex |-> <<"a", "*">>, token_cls |-> "A"],
       [regex |-> <<"b">>, token_cls |-> "B"]>>}
TestString1 == <<"a", "b", "a", "b", "a", "a", "b">>
TestString2 == <<"a", "b", "a", "b", "a", "a", "b", "b", "c", "a", "a">>
TokenizerStrings == Seqs(Alphabet, MaxTokStr) \cup {TestString1, TestString2}

NotCalled == [t |-> "NotCalled"]

VARIABLES
    pattern,        \* the pattern handed to parse
    string,         \* the input string
    regex,          \* what parse(pattern) returned or raised; NoneV before
    nfa, dfa, table,            \* the matchers built so far; NoneV before
    m_nfa, m_dfa, m_table,      \* the frames of their match(string) calls
    kind,           \* the kind of matcher find, find_all and subn are called on
    offset,         \* the offset passed to find and find_all
    matcher,        \* the three matchers of the pattern; NoneV before
    found,          \* what find(string, offset) returned; NotCalled before
    gen,            \* the frame of the generator find_all(string, offset)
    emitted,        \* the finds the generator yielded (the first MaxEmit)
    frame,          \* the frame of subn(string, substitution)
    definitions,    \* the (regex, token_cls) pairs handed to Tokenizer
    tokenizer,      \* the Tokenizer's compiled definitions; NoneV before
    tgen,           \* the frame of the generator tokenizer(string)
    tokens,         \* the tokens the generator yielded (the first MaxEmit)
    surface,        \* what Language.to_unicode(regex) returned or raised
    reparsed,       \* what parse of that surface syntax returned or raised
    document,       \* the document two concurrent operations were made on
    op, other,      \* the two concurrent operations
    included,       \* what op.include(other) returned; NoneV before
    included_other, \* what other.include(op) returned; NoneV before
    site1,          \* the document of the site that applied op first
    site2,          \* the document of the site that applied other first
    undone,         \* what op.undo() returned or raised; NoneV before
    restored,       \* the document after op and then op.undo(); NoneV before
    heap,           \* the ropes made so far
    call            \* the last rope call: its arguments, the heap before, its outcome

matchVars == <<nfa, dfa, table, m_nfa, m_dfa, m_table>>
findVars == <<kind, offset, matcher, found, gen, emitted, frame>>
tokVars == <<definitions, tokenizer, tgen, tokens>>
roundVars == <<surface, reparsed>>
otVars == <<document, op, other, included, included_other, site1, site2>>
undoVars == <<undone, restored>>
ropeVars == <<heap, call>>
extVars == <<roundVars, otVars, undoVars, ropeVars>>
vars == <<pattern, string, regex, matchVars, findVars, tokVars, extVars>>

MatchIdle ==
    /\ nfa = NoneV /\ dfa = NoneV /\ table = NoneV
    /\ m_nfa = NoneV /\ m_dfa = NoneV /\ m_table = NoneV
FindIdle ==
    /\ kind = NoneV /\ offset = 0 /\ matcher = NoneV /\ found = NotCalled
    /\ gen = NoneV /\ emitted = <<>> /\ frame = NoneV
TokIdle ==
    /\ definitions = <<>> /\ tokenizer = NoneV /\ tgen = NoneV /\ tokens = <<>>
RoundIdle == surface = NoneV /\ reparsed = NoneV
OTIdle ==
    /\ document = <<>> /\ op = NoneV /\ other = NoneV
    /\ included = NoneV /\ included_other = NoneV /\ site1 = NoneV /\ site2 = NoneV
UndoIdle == undone = NoneV /\ restored = NoneV
\* no rope call yet
NoCall == [op |-> "none", self |-> 0, other |-> 0, n |-> 0, before |-> <<>>, result |-> NoneV]
RopeIdle == heap = <<>> /\ call = NoCall
ExtIdle == RoundIdle /\ OTIdle /\ UndoIdle /\ RopeIdle

\* -------------------------------------------------------------- parsing
\* the patterns handed to parse alone: over every character of the model
ParsePatterns == Patterns \cup Seqs({AllChars[i] : i \in 1..Len(AllChars)}, MaxPat)

\* parse(pattern)
ParsePattern ==
    /\ regex = NoneV
    /\ pattern \in ParsePatterns \cup FindPatterns
    /\ regex' = parse(pattern)
    /\ UNCHANGED <<extVars, pattern, string, matchVars, findVars, tokVars>>

InitParse ==
    /\ pattern \in ParsePatterns
    /\ string = <<>> /\ regex = NoneV
    /\ MatchIdle /\ FindIdle /\ TokIdle /\ ExtIdle
NextParse == ParsePattern
SpecParse == InitParse /\ [][NextParse]_vars

\* ------------------------------------------------------------ to_unicode
Rendered(s) == [ok |-> TRUE, s |-> s]

\* Language.to_unicode(regex). Language.__init__ binds the attribute escape
\* of the instance to the escape string, which hides the method escape;
\* a Language has no attribute language; Either and Neither keep their
\* members in characters_and_ranges and have no attribute characters.
\* An operand that is the object itself is rendered without end.
RECURSIVE to_unicode(_)
to_unicode(node) ==
    CASE node.t = "Epsilon" -> Rendered(<<>>)
      [] node.t = "Any" ->
            Raise("AttributeError", "'Language' object has no attribute 'language'", <<>>)
      [] node.t = "Character" ->
            Raise("TypeError", "'unicode' object is not callable", <<>>)
      [] node.t = "Concatenation" ->
            IF node.left = SelfRef \/ node.right = SelfRef
            THEN Raise("RuntimeError", "maximum recursion depth exceeded", <<>>)
            ELSE LET l == to_unicode(node.left) IN
                 IF ~l.ok THEN l
                 ELSE LET r == to_unicode(node.right) IN
                      IF ~r.ok THEN r ELSE Rendered(l.s \o r.s)
      [] node.t = "Union" ->
            IF node.left = SelfRef \/ node.right = SelfRef
            THEN Raise("RuntimeError", "maximum recursion depth exceeded", <<>>)
            ELSE LET l == to_unicode(node.left) IN
                 IF ~l.ok THEN l
                 ELSE LET r == to_unicode(node.right) IN
                      IF ~r.ok THEN r ELSE Rendered(l.s \o <<union>> \o r.s)
      [] node.t = "Repetition" ->
            LET r == to_unicode(node.repeated) IN
            IF ~r.ok THEN r ELSE Rendered(r.s \o <<zero_or_more>>)
      [] node.t = "Group" ->
            LET g == to_unicode(node.grouped) IN
            IF ~g.ok THEN g ELSE Rendered(<<group_begin>> \o g.s \o <<group_end>>)
      [] node.t = "Either" ->
            Raise("AttributeError", "'Either' object has no attribute 'characters'", <<>>)
      [] node.t = "Neither" ->
            Raise("AttributeError", "'Neither' object has no attribute 'characters'", <<>>)
      [] node.t = "Range" ->
            LET l == to_unicode(node.start) IN
            IF ~l.ok THEN l
            ELSE LET r == to_unicode(node.end) IN
                 IF ~r.ok THEN r ELSE Rendered(l.s \o <<range>> \o r.s)
      [] OTHER -> Raise("NotImplementedError", "", <<>>)

\* DEFAULT_LANGUAGE.to_unicode(regex) on the AST that parse returned
Render ==
    /\ regex # NoneV /\ regex.ok
    /\ surface = NoneV
    /\ surface' = to_unicode(regex.ast)
    /\ UNCHANGED <<reparsed, otVars, undoVars, ropeVars, pattern, string, regex, matchVars, findVars, tokVars>>

\* parse(surface) on the surface syntax that to_unicode returned
Reparse ==
    /\ surface # NoneV /\ surface.ok
    /\ reparsed = NoneV
    /\ reparsed' = parse(surface.s)
    /\ UNCHANGED <<surface, otVars, undoVars, ropeVars, pattern, string, regex, matchVars, findVars, tokVars>>

NextRound == ParsePattern \/ Render \/ Reparse
SpecRound == InitParse /\ [][NextRound]_vars

\* ---------------------------------------------- the three matchers' match
\* RegexTestWrapper: the matchers are built when first used, and
\* assertMatches calls match on the NFA, the DFA and the DFATable in turn.
Finished(m) == m # NoneV /\ m.pc \in {"returned", "raised"}

\* self.ast.to_nfa()
ToNFA ==
    /\ regex # NoneV /\ regex.ok /\ nfa = NoneV
    /\ nfa' = to_nfa(regex.ast, EmptyArena)
    /\ m_nfa' = IF nfa'.ok THEN nfa_match_start(nfa') ELSE NoneV
    /\ UNCHANGED <<extVars, pattern, string, regex, dfa, table, m_dfa, m_table, findVars, tokVars>>

\* NFA.match(string): a turn of the loop, or the statements after it
NFAMatchStep ==
    /\ m_nfa # NoneV /\ ~Finished(m_nfa)
    /\ m_nfa' = nfa_match_step(nfa, m_nfa, string)
    /\ UNCHANGED <<extVars, pattern, string, regex, nfa, dfa, table, m_dfa, m_table, findVars, tokVars>>

\* self.ast.to_dfa(): to_nfa().to_dfa()
ToDFA ==
    /\ Finished(m_nfa) /\ dfa = NoneV
    /\ dfa' = to_dfa(to_nfa(regex.ast, EmptyArena))
    /\ m_dfa' = dfa_match_start(dfa')
    /\ UNCHANGED <<extVars, pattern, string, regex, nfa, table, m_nfa, m_table, findVars, tokVars>>

\* DFA.match(string): a turn of the loop, or its else branch
DFAMatchStep ==
    /\ m_dfa # NoneV /\ ~Finished(m_dfa)
    /\ m_dfa' = dfa_match_step(dfa, m_dfa, string)
    /\ UNCHANGED <<extVars, pattern, string, regex, nfa, dfa, table, m_nfa, m_table, findVars, tokVars>>

\* self.dfa.to_dfa_table()
ToDFATable ==
    /\ Finished(m_dfa) /\ table = NoneV
    /\ \E order \in DictOrders : table' = to_dfa_table(dfa, order)
    /\ m_table' = table_match_start
    /\ UNCHANGED <<extVars, pattern, string, regex, nfa, dfa, m_nfa, m_dfa, findVars, tokVars>>

\* DFATable.match(string): a turn of the loop, or its else branch
TableMatchStep ==
    /\ m_table # NoneV /\ ~Finished(m_table)
    /\ m_table' = table_match_step(table, m_table, string)
    /\ UNCHANGED <<extVars, pattern, string, regex, nfa, dfa, table, m_nfa, m_dfa, findVars, tokVars>>

Init ==
    /\ pattern \in Patterns
    /\ string \in Seqs(InputChars, MaxStr)
    /\ regex = NoneV
    /\ MatchIdle /\ FindIdle /\ TokIdle /\ ExtIdle
Next ==
    \/ ParsePattern \/ ToNFA \/ NFAMatchStep \/ ToDFA \/ DFAMatchStep
    \/ ToDFATable \/ TableMatchStep
Spec == Init /\ [][Next]_vars

\* ------------------------------------------------- find, find_all, subn
\* the three matchers of the pattern are built
BuildMatchers ==
    /\ regex # NoneV /\ regex.ok /\ matcher = NoneV
    /\ \E order \in DictOrders : matcher' = Compiled(regex.ast, order)
    /\ UNCHANGED <<extVars, pattern, string, regex, matchVars, kind, offset, found, gen,
                   emitted, frame, tokVars>>

Built == matcher # NoneV /\ matcher.ok

\* a find that records the states it visited by clearing the final indices
\* of the table
FindCall_Alt ==
    /\ Built /\ found = NotCalled
    /\ found' = find(matcher, kind, string, offset)
    /\ matcher' = [matcher EXCEPT !.table.finals = {}]
    /\ UNCHANGED <<extVars, pattern, string, regex, matchVars, kind, offset, gen,
                   emitted, frame, tokVars>>

\* matcher.find(string, offset)
FindCall ==
    /\ Built /\ found = NotCalled
    /\ found' = find(matcher, kind, string, offset)
    /\ UNCHANGED <<extVars, pattern, string, regex, matchVars, kind, offset, matcher, gen,
                   emitted, frame, tokVars>>

\* matcher.find_all(string, offset): the generator is made
FindAllCall ==
    /\ Built /\ found # NotCalled /\ gen = NoneV
    /\ gen' = find_all_start
    /\ UNCHANGED <<extVars, pattern, string, regex, matchVars, kind, offset, matcher, found,
                   emitted, frame, tokVars>>

\* the consumer takes the find handed out and asks for the next
FindAllResume ==
    /\ gen # NoneV /\ gen.pc = "yield"
    /\ gen' = [gen EXCEPT !.pc = "next"]
    /\ UNCHANGED <<extVars, pattern, string, regex, matchVars, kind, offset, matcher, found,
                   emitted, frame, tokVars>>

\* the generator of find_all runs to its next yield, or to its end
FindAllNext ==
    /\ gen # NoneV /\ gen.pc \in {"start", "next"}
    /\ gen' = find_all_next(matcher, kind, string, offset, gen)
    /\ emitted' = IF gen'.pc = "yield" /\ Len(emitted) < MaxEmit
                  THEN Append(emitted, gen'.find) ELSE emitted
    /\ UNCHANGED <<extVars, pattern, string, regex, matchVars, kind, offset, matcher, found,
                   frame, tokVars>>

\* matcher.subn(string, substitution) is called
SubnCall ==
    /\ Built /\ found # NotCalled /\ frame = NoneV
    /\ \E substitution \in {[t |-> "unicode", s |-> <<"X">>], [t |-> "function"]} :
          frame' = subn_start(string) @@ [substitution |-> substitution]
    /\ UNCHANGED <<extVars, pattern, string, regex, matchVars, kind, offset, matcher, found,
                   gen, emitted, tokVars>>

\* subn: the first find, or a turn of the while loop, or the return
SubnStep ==
    /\ frame # NoneV /\ frame.pc \in {"first", "while"}
    /\ frame' = subn_step(matcher, kind, frame.substitution, frame)
    /\ UNCHANGED <<extVars, pattern, string, regex, matchVars, kind, offset, matcher, found,
                   gen, emitted, tokVars>>

InitFind ==
    /\ pattern \in FindPatterns
    /\ string \in Seqs(InputChars, MaxStr)
    /\ regex = NoneV
    /\ kind \in Kinds
    /\ offset \in 0..MaxOffset
    /\ matcher = NoneV /\ found = NotCalled /\ gen = NoneV /\ emitted = <<>>
    /\ frame = NoneV
    /\ MatchIdle /\ TokIdle /\ ExtIdle
NextFind ==
    \/ ParsePattern \/ BuildMatchers \/ FindCall \/ FindAllCall \/ FindAllResume
    \/ FindAllNext \/ SubnCall \/ SubnStep
SpecFind == InitFind /\ [][NextFind]_vars
\* find_all alone, its consumer iterating the generator to its end
NextFindAll ==
    \/ ParsePattern \/ BuildMatchers \/ FindCall \/ FindAllCall \/ FindAllResume
    \/ FindAllNext
SpecFindAll ==
    InitFind /\ [][NextFindAll]_vars /\ WF_vars(FindAllResume \/ FindAllNext)

\* -------------------------------------------------------------- tokenizer
\* Tokenizer(definitions)
BuildTokenizer ==
    /\ definitions # <<>> /\ tokenizer = NoneV
    /\ \E order \in DictOrders : tokenizer' = TokenizerInit(definitions, order)
    /\ UNCHANGED <<extVars, pattern, string, regex, matchVars, findVars, definitions, tgen, tokens>>

\* tokenizer(string): the generator is made
TokenizerCall ==
    /\ tokenizer # NoneV /\ tgen = NoneV
    /\ tgen' = tokenizer_start(string)
    /\ UNCHANGED <<extVars, pattern, string, regex, matchVars, findVars, definitions,
                   tokenizer, tokens>>

\* the consumer takes the token handed out and asks for the next
TokenizerResume ==
    /\ tgen # NoneV /\ tgen.pc = "yield"
    /\ tgen' = [tgen EXCEPT !.pc = "next"]
    /\ UNCHANGED <<extVars, pattern, string, regex, matchVars, findVars, definitions,
                   tokenizer, tokens>>

\* the generator of the tokenizer runs to its next yield, or to its end
TokenizerNext ==
    /\ tgen # NoneV /\ tgen.pc \in {"start", "next"}
    /\ tgen' = tokenizer_next(tokenizer.definitions, tgen)
    /\ tokens' = IF tgen'.pc = "yield" /\ Len(tokens) < MaxEmit
                 THEN Append(tokens, tgen'.token) ELSE tokens
    /\ UNCHANGED <<extVars, pattern, string, regex, matchVars, findVars, definitions, tokenizer>>

InitTok ==
    /\ definitions \in DefinitionLists
    /\ string \in TokenizerStrings
    /\ pattern = <<>> /\ regex = NoneV
    /\ tokenizer = NoneV /\ tgen = NoneV /\ tokens = <<>>
    /\ MatchIdle /\ FindIdle /\ ExtIdle
NextTok == BuildTokenizer \/ TokenizerCall \/ TokenizerResume \/ TokenizerNext
SpecTok == InitTok /\ [][NextTok]_vars
\* the consumer of the generator iterates it to its end
SpecTokFair == SpecTok /\ WF_vars(TokenizerResume \/ TokenizerNext)

\* ------------------------------------------------- inclusion transformation
\* the documents, the strings inserted, and the operations that can be made
\* on a document: an Insert at any position of it, a Delete of any part of it
DocChars == <<"a", "b", "c", "d", "e", "f">>
Documents ==
    {SubSeq(DocChars, 1, n) : n \in 0..(IF MaxDoc > Len(DocChars) THEN Len(DocChars) ELSE MaxDoc)}
InsertStrings == Seqs({"x", "y"}, MaxIns)
Operations(doc) ==
    {Insert(start, s) : start \in 0..Len(doc), s \in InsertStrings}
    \cup {Delete(start, PySlice(doc, start, stop)) :
            start \in 0..Len(doc), stop \in 0..Len(doc)}

OTRest == <<pattern, string, regex, matchVars, findVars, tokVars, roundVars, ropeVars>>

\* op.include(other)
Include ==
    /\ included = NoneV
    /\ included' = include(op, other)
    /\ UNCHANGED <<document, op, other, included_other, site1, site2, undoVars, OTRest>>

\* other.include(op)
IncludeOther ==
    /\ included_other = NoneV
    /\ included_other' = include(other, op)
    /\ UNCHANGED <<document, op, other, included, site1, site2, undoVars, OTRest>>

\* the first site applies its own operation op
Site1Own ==
    /\ site1 = NoneV
    /\ site1' = [doc |-> apply(op, document), done |-> FALSE]
    /\ UNCHANGED <<document, op, other, included, included_other, site2, undoVars, OTRest>>

\* and then the operations other was transformed to
Site1Remote ==
    /\ site1 # NoneV /\ ~site1.done
    /\ included_other # NoneV /\ included_other.t = "list"
    /\ site1' = [doc |-> apply_all(included_other.ops, site1.doc), done |-> TRUE]
    /\ UNCHANGED <<document, op, other, included, included_other, site2, undoVars, OTRest>>

\* the second site applies its own operation other
Site2Own ==
    /\ site2 = NoneV
    /\ site2' = [doc |-> apply(other, document), done |-> FALSE]
    /\ UNCHANGED <<document, op, other, included, included_other, site1, undoVars, OTRest>>

\* and then the operations op was transformed to
Site2Remote ==
    /\ site2 # NoneV /\ ~site2.done
    /\ included # NoneV /\ included.t = "list"
    /\ site2' = [doc |-> apply_all(included.ops, site2.doc), done |-> TRUE]
    /\ UNCHANGED <<document, op, other, included, included_other, site1, undoVars, OTRest>>

\* op.undo()
Undo ==
    /\ undone = NoneV
    /\ undone' = undo(op)
    /\ UNCHANGED <<otVars, restored, OTRest>>

\* op applied to the document, and then the operation op.undo() returned
ApplyUndo ==
    /\ undone # NoneV /\ undone.t \in {"Insert", "Delete"}
    /\ restored = NoneV
    /\ restored' = [doc |-> apply(undone, apply(op, document))]
    /\ UNCHANGED <<otVars, undone, OTRest>>

InitOT ==
    /\ document \in Documents
    /\ op \in Operations(document) /\ other \in Operations(document)
    /\ included = NoneV /\ included_other = NoneV /\ site1 = NoneV /\ site2 = NoneV
    /\ pattern = <<>> /\ string = <<>> /\ regex = NoneV
    /\ MatchIdle /\ FindIdle /\ TokIdle /\ RoundIdle /\ UndoIdle /\ RopeIdle
NextOT ==
    \/ Include \/ IncludeOther
    \/ Site1Own \/ Site1Remote \/ Site2Own \/ Site2Remote
    \/ Undo \/ ApplyUndo
SpecOT == InitOT /\ [][NextOT]_vars

\* ------------------------------------------------------------------ ropes
\* the strings ropes are made of
RopeLeaves == {<<>>, <<"a">>, <<"b">>, <<"a", "b">>}
Ropes == 1..Len(heap)
RopeRest ==
    <<pattern, string, regex, matchVars, findVars, tokVars, roundVars, otVars, undoVars>>
Called(name, self, o, n, after) ==
    [op |-> name, self |-> self, other |-> o, n |-> n,
     before |-> heap, result |-> after.result]

\* rope(obj)
NewRope ==
    /\ Len(heap) < MaxRopes
    /\ \E obj \in RopeLeaves :
        LET after == rope(heap, obj) IN
        /\ heap' = after.heap
        /\ call' = Called("rope", 0, 0, 0, after)
    /\ UNCHANGED RopeRest

\* self + other
RopeAdd ==
    /\ Len(heap) < MaxRopes
    /\ \E self \in Ropes, o \in Ropes :
        LET after == rope_add(heap, self, o) IN
        /\ heap' = after.heap
        /\ call' = Called("add", self, o, 0, after)
    /\ UNCHANGED RopeRest

\* self * times
RopeMul ==
    /\ Len(heap) < MaxRopes
    /\ \E self \in Ropes, times \in (-1)..MaxTimes :
        LET after == rope_mul(heap, self, times) IN
        /\ heap' = after.heap
        /\ call' = Called("mul", self, 0, times, after)
    /\ UNCHANGED RopeRest

\* len(self)
RopeLen ==
    /\ \E self \in Ropes :
        call' = Called("len", self, 0, 0, After(heap, rope_len(heap, self)))
    /\ UNCHANGED <<heap, RopeRest>>

\* self[index]
RopeGetItem ==
    /\ \E self \in Ropes, index \in 0..MaxIndex :
        call' = Called("getitem", self, 0, index,
                       After(heap, rope_getitem(heap, self, index)))
    /\ UNCHANGED <<heap, RopeRest>>

\* self == other
RopeEq ==
    /\ \E self \in Ropes, o \in Ropes :
        call' = Called("eq", self, o, 0, After(heap, rope_eq(heap, self, o)))
    /\ UNCHANGED <<heap, RopeRest>>

\* self.inserted(position, other)
RopeInserted ==
    /\ \E self \in Ropes, o \in Ropes, position \in 0..MaxIndex :
        call' = Called("inserted", self, o, position,
                       After(heap, rope_inserted(heap, self, position, o)))
    /\ UNCHANGED <<heap, RopeRest>>

\* self.deleted(position, other)
RopeDeleted ==
    /\ \E self \in Ropes, o \in Ropes, position \in 0..MaxIndex :
        call' = Called("deleted", self, o, position,
                       After(heap, rope_deleted(heap, self, position, o)))
    /\ UNCHANGED <<heap, RopeRest>>

InitRope ==
    /\ heap = <<>> /\ call = NoCall
    /\ pattern = <<>> /\ string = <<>> /\ regex = NoneV
    /\ MatchIdle /\ FindIdle /\ TokIdle /\ RoundIdle /\ OTIdle /\ UndoIdle
NextRope ==
    \/ NewRope \/ RopeAdd \/ RopeMul
    \/ RopeLen \/ RopeGetItem \/ RopeEq \/ RopeInserted \/ RopeDeleted
SpecRope == InitRope /\ [][NextRope]_vars

\* ============================================================== properties
\* w is in L(r), the language of the regex r
RECURSIVE InLang(_, _)
InLang(r, w) ==
    CASE r.t = "Epsilon" -> w = <<>>
      [] r.t = "Any" -> Len(w) = 1
      [] r.t = "Character" -> w = <<r.raw>>
      [] r.t = "Concatenation" ->
            \E k \in 0..Len(w) :
                InLang(r.left, SubSeq(w, 1, k)) /\ InLang(r.right, SubSeq(w, k + 1, Len(w)))
      [] r.t = "Union" -> InLang(r.left, w) \/ InLang(r.right, w)
      [] r.t = "Repetition" ->
            \/ w = <<>>
            \/ \E k \in 1..Len(w) :
                InLang(r.repeated, SubSeq(w, 1, k)) /\ InLang(r, SubSeq(w, k + 1, Len(w)))
      [] r.t = "Group" -> InLang(r.grouped, w)
      [] r.t = "Either" -> Len(w) = 1 /\ w[1] \in Listed(r.characters_and_ranges)
      [] r.t = "Neither" -> Len(w) = 1 /\ w[1] \notin Listed(r.characters_and_ranges)
      [] OTHER -> FALSE

\* the greatest i in 0..|s| with s[0:i] in L(r); None when there is none
GreatestPrefix(r, s) ==
    LET I == {i \in 0..Len(s) : InLang(r, SubSeq(s, 1, i))} IN
    IF I = {} THEN None ELSE CHOOSE i \in I : \A j \in I : j <= i

Returned(m) == m # NoneV /\ m.pc = "returned"
Least(K) == CHOOSE k \in K : \A j \in K : k <= j

\* C1: whichever of the three matchers (NFA, DFA, DFATable) is built from the
\* parsed pattern, match(string) returns the greatest i in 0..|string| such
\* that string[0:i] is in the language of the pattern, and None when no
\* prefix of the string is.
C1_MatchGreatestPrefix ==
    /\ Returned(m_nfa) =>
          m_nfa.last_successful_end = GreatestPrefix(regex.ast, string)
    /\ Returned(m_dfa) =>
          m_dfa.last_successful_end = GreatestPrefix(regex.ast, string)
    /\ Returned(m_table) =>
          m_table.success = GreatestPrefix(regex.ast, string)

\* C2: the DFA made from the pattern's NFA by subset construction returns
\* from match(string) what that NFA returns.
C2_DFAAgreesWithNFA ==
    (Returned(m_nfa) /\ Returned(m_dfa)) =>
        m_dfa.last_successful_end = m_nfa.last_successful_end

\* C3: the DFATable made from a DFA by to_dfa_table returns from
\* match(string) what the DFA returns, also when the string is consumed to
\* its end in a non-final state after a final state was passed.
C3_TableAgreesWithDFA ==
    (Returned(m_dfa) /\ Returned(m_table)) =>
        m_table.success = m_dfa.last_successful_end

\* what match returns on string[k:]
MatchAt(k) == Match(matcher, kind, From(string, k))

\* C4: find(string, offset) returns the Find over the whole string with span
\* (k, k + e), k being the smallest position in offset..|string| at which
\* match(string[k:]) is not None and e what that match returns; it returns
\* None when there is no such position.  (A find that an exception of match
\* leaves returns nothing.)
C4_FindLeftmost ==
    (found # NotCalled /\ found # Raised) =>
        LET K == {k \in offset..Len(string) : MatchAt(k) # None} IN
        IF K = {} THEN found = NoneV
        ELSE found = Find(string, Least(K), Least(K) + MatchAt(Least(K)))

\* find skipped a position at which match returned None, from an offset
\* other than 0, and found a non-empty span
C4_Witness ==
    /\ found # NotCalled /\ found # Raised /\ found # NoneV
    /\ offset > 0 /\ found.start > offset /\ found.end > found.start

\* C5: when the pattern matches the empty string, iterating
\* find_all(string, offset) comes to an end: it emits finitely many finds.
C5_FindAllTerminates ==
    (gen # NoneV /\ InLang(regex.ast, <<>>))
        ~> (gen # NoneV /\ gen.pc \in {"done", "raised"})

\* C6: from every offset, the finds find_all(string, offset) emits do not
\* overlap and come in increasing position order, and every find after the
\* first is the leftmost find of a search resumed at the end of the span
\* emitted before it.
C6_FindAllResumesAtEnd ==
    \A i \in 2..Len(emitted) :
        /\ emitted[i].start >= emitted[i - 1].end
        /\ emitted[i] = find(matcher, kind, string, emitted[i - 1].end)

\* string with the regions of finds[i..] replaced, from position `from` on
RECURSIVE Replaced(_, _, _, _)
Replaced(finds, i, from, substitution) ==
    IF i > Len(finds) THEN From(string, from)
    ELSE Slice(string, from, finds[i].start) \o sub(substitution, finds[i])
            \o Replaced(finds, i + 1, finds[i].end, substitution)

\* C7: subn(string, r) returns (result, count), count being the number of
\* finds find_all(string) emits and result the string with exactly those
\* regions replaced by r (by r(find) when r is a function), the text outside
\* them kept as it is.
C7_SubnFollowsFindAll ==
    (frame # NoneV /\ frame.pc = "returned" /\ offset = 0 /\ gen # NoneV) =>
        /\ Len(emitted) <= frame.n
        /\ (gen.pc = "done" /\ Len(emitted) < MaxEmit) =>
              /\ frame.n = Len(emitted)
              /\ frame.result = Replaced(emitted, 1, 0, frame.substitution)

\* the tokens the tokenizer test expects of TestString1
ExpectedTokens1 ==
    <<Token("AB", <<"a", "b", "a", "b">>, 0, 4), Token("A", <<"a", "a">>, 4, 6),
      Token("B", <<"b">>, 6, 7)>>
IsPrefix(p, q) == Len(p) <= Len(q) /\ p = SubSeq(q, 1, Len(p))
\* what the k-th pattern's match returns on the input from the cursor on
TokenMatchAt(k, cursor) ==
    Match(tokenizer.definitions[k].matcher, "DFATable", From(string, cursor))

\* C8: at every cursor the tokenizer emits the token class of the first
\* pattern, in declaration order, whose match on the remaining input is not
\* None, the lexeme being the prefix that pattern matches and the span
\* (cursor, cursor + end); and for (ab+, AB), (a+, A), (b+, B) on 'ababaab'
\* it yields AB('abab', 0..4), A('aa', 4..6), B('b', 6..7).
C8_FirstPatternWins ==
    /\ (tgen # NoneV /\ tgen.pc = "yield") =>
          LET token == tgen.token
              K == {k \in 1..Len(tokenizer.definitions) : TokenMatchAt(k, token.start) # None}
          IN  /\ K # {}
              /\ token.cls = tokenizer.definitions[Least(K)].token_cls
              /\ token.end = token.start + TokenMatchAt(Least(K), token.start)
              /\ token.lexeme = Slice(string, token.start, token.end)
    /\ (definitions = TestDefinitions /\ string = TestString1 /\ tgen # NoneV) =>
          /\ IsPrefix(tokens, ExpectedTokens1)
          /\ tgen.pc # "raised"
          /\ tgen.pc = "done" => tokens = ExpectedTokens1

\* C9: when no pattern matches at the cursor P and input remains, tokenizing
\* fails with a TokenizerError of position P and reason 'string cannot be
\* further consumed at position P', the tokens of the input before P having
\* been emitted; for ab+, a+, b+ on 'ababaabbcaa' it fails with P = 8.
C9_TokenizerErrorAtP ==
    /\ [](  (tgen # NoneV /\ tgen.pc = "raised") =>
              /\ tgen.string # <<>>
              /\ \A k \in 1..Len(tokenizer.definitions) : TokenMatchAt(k, tgen.start) = None
              /\ tgen.error.position = tgen.start
              /\ tgen.error.reason
                    = "string cannot be further consumed at position "
                          \o ToString(tgen.start)
              /\ (tokens # <<>> /\ Len(tokens) < MaxEmit) =>
                    tokens[Len(tokens)].end = tgen.start  )
    /\ (definitions = TestDefinitions /\ string = TestString2 /\ tgen # NoneV)
          ~> /\ tgen # NoneV /\ tgen.pc = "raised" /\ tgen.error.position = 8
             /\ tgen.error.reason = "string cannot be further consumed at position 8"

\* an atom of a pattern: a character, the any marker, or a group of one
\* character
Atoms == {<<"a">>, <<"b">>, <<any>>}

\* C10: the one-or-more marker repeats only the atom before it: a pattern
\* a1..an+ of atoms parses to the AST of a1..an an*.
C10_PlusRepeatsPrecedingAtom ==
    \A before \in Seqs({"a", "b", any}, MaxPat), atom \in Atoms :
        (regex # NoneV /\ pattern = before \o atom \o <<one_or_more>>) =>
            regex = parse(before \o atom \o atom \o <<zero_or_more>>)


\* the markers that open a nested construct or change the reading of the
\* code point after them
Openers == {union, group_begin, either_begin, escape}

\* C11: union binds looser than concatenation and repetition and associates
\* to the right: with nothing but atoms and repetition markers before the
\* first union marker, the pattern parses to the Union of what stands before
\* the marker and of everything after it (an operand that is Epsilon is
\* dropped by the Union constructor, so the right side is taken not to parse
\* to Epsilon); 'a|b*' parses to Union(a, Repetition(b)) and 'a|b|c' to
\* Union(a, Union(b, c)).
C11_UnionLoosest ==
    (regex # NoneV /\ regex.ok) =>
        /\ \A k \in 2..(Len(pattern) - 1) :
              (/\ pattern[k] = union
               /\ \A j \in 1..(k - 1) : pattern[j] \notin Openers
               /\ parse(SubSeq(pattern, k + 1, Len(pattern))).ast # Epsilon) =>
                  regex.ast = [t |-> "Union",
                               left |-> parse(SubSeq(pattern, 1, k - 1)).ast,
                               right |-> parse(SubSeq(pattern, k + 1, Len(pattern))).ast]
        /\ pattern = <<"a", "|", "b", "*">> =>
              regex.ast = [t |-> "Union", left |-> [t |-> "Character", raw |-> "a"],
                           right |-> [t |-> "Repetition",
                                      repeated |-> [t |-> "Character", raw |-> "b"]]]
        /\ pattern = <<"a", "|", "b", "|", "c">> =>
              regex.ast = [t |-> "Union", left |-> [t |-> "Character", raw |-> "a"],
                           right |-> [t |-> "Union",
                                      left |-> [t |-> "Character", raw |-> "b"],
                                      right |-> [t |-> "Character", raw |-> "c"]]]

\* 'a|b|c' has been parsed
C11_Witness ==
    regex # NoneV /\ regex.ok /\ pattern = <<"a", "|", "b", "|", "c">>


\* pattern[k] is a repetition marker with no expression before it in the
\* expression it stands in
Unpreceded(k) ==
    /\ pattern[k] \in repetition_characters
    /\ k = 1 \/ pattern[k - 1] \in {group_begin, union}
\* the parser reads pattern[1..k-1] without failing and without leaving the
\* expression pattern[k] stands in
ReadsUpTo(k) ==
    \A j \in 1..(k - 1) :
        /\ pattern[j] \notin {escape, either_begin, group_end, either_end}
        /\ ~Unpreceded(j)
\* n spaces
Spaces(n) == [i \in 1..n |-> " "]

\* C12: a repetition marker with no expression before it in the expression
\* being parsed (at top level, at the start of a group, after a union marker)
\* makes parse fail with a ParserError of reason '<marker> is not preceded by
\* a repeatable expression', annotated with the input followed by a line of
\* one space per preceding code point and a caret under the marker.
C12_RepetitionNeedsOperand ==
    \A k \in 1..Len(pattern) :
        (regex # NoneV /\ Unpreceded(k) /\ ReadsUpTo(k)) =>
            regex = [ok |-> FALSE, exc |-> "ParserError",
                     reason |-> pattern[k] \o " is not preceded by a repeatable expression",
                     ann |-> pattern \o <<"\n">> \o Spaces(k - 1) \o <<"^">>]

\* a group that starts with a one-or-more marker has been parsed
C12_Witness ==
    /\ regex # NoneV /\ Len(pattern) >= 2
    /\ pattern[1] = group_begin /\ pattern[2] = one_or_more


\* C13: a group-end or class-end marker met where no construct is open (what
\* precedes it parses as a whole pattern) makes parse fail with a ParserError
\* of reason 'found unmatched X', annotated with the input and a single
\* caret under the marker ('a)' gives ' ^', 'ab]' gives '  ^').
C13_UnmatchedEnd ==
    \A k \in 1..Len(pattern) :
        (/\ regex # NoneV
         /\ pattern[k] \in {group_end, either_end}
         /\ parse(SubSeq(pattern, 1, k - 1)).ok) =>
            regex = [ok |-> FALSE, exc |-> "ParserError",
                     reason |-> "found unmatched " \o pattern[k],
                     ann |-> pattern \o <<"\n">> \o Spaces(k - 1) \o <<"^">>]

\* 'ab]' has been parsed, with the annotation the test expects
C13_Witness ==
    /\ regex # NoneV /\ pattern = <<"a", "b", "]">>
    /\ regex.ann = <<"a", "b", "]", "\n", " ", " ", "^">>


\* the marker that closes what the marker begin opens
EndOf(begin) == IF begin = group_begin THEN group_end ELSE either_end
\* n hyphens
Hyphens(n) == [i \in 1..n |-> "-"]

\* C14: when the input ends while a group or a character class is open
\* (here: one opening marker among plain characters, also as the last code
\* point), parse fails with a ParserError of reason 'unexpected end of
\* string, expected <end> corresponding to <begin>', annotated with carets
\* under the opening marker and one position past the last code point and
\* hyphens between them ('(a' gives '^-^', '[ab' gives '^--^').
C14_UnclosedAtEnd ==
    \A k \in 1..Len(pattern) :
        (/\ regex # NoneV
         /\ pattern[k] \in {group_begin, either_begin}
         /\ \A j \in 1..Len(pattern) : j # k => pattern[j] \in {"a", "b"}) =>
            regex = [ok |-> FALSE, exc |-> "ParserError",
                     reason |-> "unexpected end of string, expected " \o EndOf(pattern[k])
                                  \o " corresponding to " \o pattern[k],
                     ann |-> pattern \o <<"\n">> \o Spaces(k - 1) \o <<"^">>
                                \o Hyphens(Len(pattern) - k) \o <<"^">>]


\* C15: at expression level an escape marker followed by a code point x,
\* special or not, parses as the literal Character(x), concatenated to the
\* expression parsed so far (here: plain characters before the escape
\* marker, x the last code point).
C15_EscapeIsLiteral ==
    \A k \in 1..(Len(pattern) - 1) :
        (/\ regex # NoneV
         /\ k + 1 = Len(pattern)
         /\ pattern[k] = escape
         /\ \A j \in 1..(k - 1) : pattern[j] \in {"a", "b"}) =>
            /\ regex.ok
            /\ regex.ast = IF k = 1
                           THEN [t |-> "Character", raw |-> pattern[k + 1]]
                           ELSE [t |-> "Concatenation",
                                 left |-> parse(SubSeq(pattern, 1, k - 1)).ast,
                                 right |-> [t |-> "Character", raw |-> pattern[k + 1]]]


\* the pattern is plain characters from position i to position j
Plain(i, j) == \A n \in i..j : pattern[n] \in {"a", "b"}
\* the input ends where a code point is required: after an escape marker at
\* expression level or in a character class, or after a range marker in a
\* character class
EndsWhereCodePointRequired ==
    LET n == Len(pattern) IN
    \/ n >= 1 /\ pattern[n] = escape /\ Plain(1, n - 1)
    \/ n >= 2 /\ pattern[1] = either_begin /\ pattern[n] = escape /\ Plain(2, n - 1)
    \/ n >= 3 /\ pattern[1] = either_begin /\ pattern[n] = range /\ Plain(2, n - 1)

\* C16: when the input ends where a code point is required, parse fails with
\* a ParserError that carries a reason and an annotation, and in no other
\* way.
C16_EndOfInputIsParserError ==
    (regex # NoneV /\ EndsWhereCodePointRequired) =>
        /\ ~regex.ok
        /\ regex.exc = "ParserError"
        /\ regex.reason # "" /\ regex.ann # <<>>


\* C17: parse round trip. Whenever parse returned an AST R, to_unicode(R)
\* returns a surface syntax, and parsing that surface syntax returns an AST
\* equal to R (R is what parse produced, so the + of the pattern is already
\* desugared in it).
C17_ParseRoundTrip ==
    /\ surface # NoneV => surface.ok
    /\ reparsed # NoneV => reparsed = regex


\* C18: TP1 for insert/insert. When op and other are both Inserts made on
\* the same document, the site that applied op and then other.include(op)
\* and the site that applied other and then op.include(other) hold the same
\* document, inserts at the same position with different strings included.
C18_TP1InsertInsert ==
    (/\ op.t = "Insert" /\ other.t = "Insert"
     /\ site1 # NoneV /\ site1.done
     /\ site2 # NoneV /\ site2.done)
    => site1.doc = site2.doc

\* C19: op.include(other) returns a list of one operation, or of two
\* operations exactly when op is a Delete and other an Insert that starts
\* strictly inside it.
C19_IncludeReturnsOneOrTwo ==
    included # NoneV =>
        /\ included.t = "list"
        /\ Len(included.ops) \in {1, 2}
        /\ Len(included.ops) = 2 <=>
              /\ op.t = "Delete" /\ other.t = "Insert"
              /\ op.start < other.start /\ other.start < end(op)

\* C20: when the Delete other lies strictly inside the Delete op,
\* op.include(other) is the single Delete at op.start of op.string without
\* the characters at the relative offsets other.start - op.start up to
\* other.start - op.start + len(other), whatever op.start is.
C20_DeleteInsideDelete ==
    (/\ included # NoneV
     /\ op.t = "Delete" /\ other.t = "Delete"
     /\ op.start < other.start /\ end(other) < end(op))
    => included =
         List(<<Delete(op.start,
                       PySlice(op.string, 0, other.start - op.start) \o
                       PyFrom(op.string, other.start - op.start + len(other)))>>)


\* C21: op.undo() is the opposite variant with the start and the string of
\* op, and the document after op and then op.undo() is the document before.
C21_UndoRestores ==
    /\ undone # NoneV =>
          undone = [t |-> IF op.t = "Insert" THEN "Delete" ELSE "Insert",
                    start |-> op.start, string |-> op.string]
    /\ restored # NoneV => restored.doc = document


\* the code-point sequence of a rope, by its shape; defined for the ropes
\* that do not contain themselves
RECURSIVE WellFormed(_, _)
WellFormed(h, id) ==
    LET o == h[id] IN
    CASE o.t = "String" -> TRUE
      [] o.t = "Concatenation" -> WellFormed(h, o.left) /\ WellFormed(h, o.right)
      [] o.t = "Repetition" -> o.rope # id /\ WellFormed(h, o.rope)
RECURSIVE CodePoints(_, _)
CodePoints(h, id) ==
    LET o == h[id] IN
    CASE o.t = "String" -> o.data
      [] o.t = "Concatenation" -> CodePoints(h, o.left) \o CodePoints(h, o.right)
      [] o.t = "Repetition" -> Times(o.times, CodePoints(h, o.rope))

\* C22: self == other is True exactly when the two ropes have the same
\* code-point sequence, whatever their shapes; a rope is not equal to a
\* proper prefix of itself.
C22_EqIffSameCodePoints ==
    (call.op = "eq" /\ WellFormed(heap, call.self) /\ WellFormed(heap, call.other))
    => call.result = Return(CodePoints(heap, call.self) = CodePoints(heap, call.other))

\* C23: (a + b)[i] is a[i] when 0 <= i < |a| and b[i - |a|] when
\* |a| <= i < |a| + |b|.
C23_ConcatenationIndex ==
    (/\ call.op = "getitem" /\ heap[call.self].t = "Concatenation"
     /\ WellFormed(heap, call.self)
     /\ call.n < Len(CodePoints(heap, call.self)))
    => LET a == CodePoints(heap, heap[call.self].left)
           b == CodePoints(heap, heap[call.self].right)
       IN  call.result =
             Return(IF call.n < Len(a) THEN a[call.n + 1] ELSE b[call.n - Len(a) + 1])

\* C24: r.inserted(p, t) with 0 <= p <= |r| returns a rope whose code-point
\* sequence is r[:p], then t, then r[p:], for r a String, a Concatenation
\* or a Repetition.
C24_InsertedSplices ==
    (/\ call.op = "inserted"
     /\ WellFormed(heap, call.self) /\ WellFormed(heap, call.other)
     /\ call.n <= Len(CodePoints(heap, call.self)))
    => LET r == CodePoints(call.before, call.self)
           t == CodePoints(call.before, call.other)
       IN  /\ call.result.ok
           /\ WellFormed(heap, call.result.value)
           /\ CodePoints(heap, call.result.value) =
                PySlice(r, 0, call.n) \o t \o PyFrom(r, call.n)

\* C25: r.deleted(p, t) returns the rope r[:p] then r[p+|t|:] exactly when
\* 0 <= p <= |r|, |t| <= |r| - p and r[p:p+|t|] = t; otherwise it raises,
\* returns no rope and leaves r as it was.
C25_DeletedChecksThenCuts ==
    (/\ call.op = "deleted"
     /\ WellFormed(heap, call.self) /\ WellFormed(heap, call.other))
    => LET r == CodePoints(call.before, call.self)
           t == CodePoints(call.before, call.other)
           p == call.n
           pre == /\ p <= Len(r) /\ Len(t) <= Len(r) - p
                  /\ PySlice(r, p, p + Len(t)) = t
       IN  IF pre
           THEN /\ call.result.ok
                /\ WellFormed(heap, call.result.value)
                /\ CodePoints(heap, call.result.value) =
                     PySlice(r, 0, p) \o PyFrom(r, p + Len(t))
           ELSE /\ ~call.result.ok
                /\ heap[call.self] = call.before[call.self]

\* C26: n * x is the empty String for n <= 0, x itself for n = 1, and empty
\* for an empty x (an empty x is returned as it is, whatever n), also when
\* x is a Repetition; the result has the code-point sequence and the length
\* of x repeated n times.
C26_RepetitionNormalises ==
    (call.op = "mul" /\ WellFormed(call.before, call.self))
    => LET x == CodePoints(call.before, call.self) IN
       /\ call.result.ok
       /\ (call.n <= 0 /\ x # <<>>) => heap[call.result.value] = RopeString(<<>>)
       /\ call.n = 1 => call.result.value = call.self
       /\ WellFormed(heap, call.result.value)
       /\ CodePoints(heap, call.result.value) = Times(call.n, x)
       /\ rope_len(heap, call.result.value) = Return(Len(Times(call.n, x)))

\* C27: length is additive: |a + b| = |a| + |b| and |n * a| = n * |a| for
\* n >= 0, for ropes built by any sequence of + and *.
C27_LengthAdditive ==
    /\ (call.op = "add" /\ rope_len(call.before, call.self).ok
                        /\ rope_len(call.before, call.other).ok)
       => rope_len(heap, call.result.value) =
            Return(rope_len(call.before, call.self).value
                   + rope_len(call.before, call.other).value)
    /\ (call.op = "mul" /\ call.n >= 0 /\ rope_len(call.before, call.self).ok)
       => /\ call.result.ok
          /\ rope_len(heap, call.result.value) =
               Return(call.n * rope_len(call.before, call.self).value)

\* C28: no rope call changes a rope that existed before the call.
C28_RopesImmutable ==
    call.op # "none" =>
        \A id \in 1..Len(call.before) : heap[id] = call.before[id]


\* the pattern accepts the empty string, the input is not empty and none of
\* its non-empty prefixes is in the language of the pattern
OnlyEmptyPrefix ==
    /\ InLang(regex.ast, <<>>)
    /\ string # <<>>
    /\ \A i \in 1..Len(string) : ~InLang(regex.ast, SubSeq(string, 1, i))

\* C29: for a pattern that accepts the empty string, each of the three
\* matchers returns None from match(string) when string is not empty and
\* none of its non-empty prefixes matches: a zero-length match is reported
\* on the empty input only.
C29_NoZeroLengthOnNonEmptyInput ==
    /\ (Finished(m_nfa) /\ OnlyEmptyPrefix)
       => (Returned(m_nfa) /\ m_nfa.last_successful_end = None)
    /\ (Finished(m_dfa) /\ OnlyEmptyPrefix)
       => (Returned(m_dfa) /\ m_dfa.last_successful_end = None)
    /\ (Finished(m_table) /\ OnlyEmptyPrefix)
       => (Returned(m_table) /\ m_table.success = None)

\* C30: on the empty string each of the three matchers returns 0 when the
\* pattern accepts the empty string and None when it does not.
C30_EmptyInput ==
    LET expected == IF InLang(regex.ast, <<>>) THEN 0 ELSE None IN
    /\ (Finished(m_nfa) /\ string = <<>>)
       => (Returned(m_nfa) /\ m_nfa.last_successful_end = expected)
    /\ (Finished(m_dfa) /\ string = <<>>)
       => (Returned(m_dfa) /\ m_dfa.last_successful_end = expected)
    /\ (Finished(m_table) /\ string = <<>>)
       => (Returned(m_table) /\ m_table.success = expected)

\* the three matchers of a* have returned 0 on the empty string
C30_Witness ==
    /\ pattern = <<"a", "*">> /\ string = <<>>
    /\ Returned(m_nfa) /\ m_nfa.last_successful_end = 0
    /\ Returned(m_dfa) /\ m_dfa.last_successful_end = 0
    /\ Returned(m_table) /\ m_table.success = 0


\* the states reachable from the states of `frontier` by movements and
\* epsilon moves, `seen` included
RECURSIVE ReachFrom(_, _, _)
ReachFrom(ar, frontier, seen) ==
    IF frontier = {} THEN seen
    ELSE LET moved == UNION {{ar.mv[q][c] : c \in DOMAIN ar.mv[q]}
                             \cup {ar.eps[q][k] : k \in 1..Len(ar.eps[q])}
                             : q \in frontier}
         IN  ReachFrom(ar, moved \ seen, seen \cup moved)
\* the states reachable from the start of the NFA n
Reachable(n) == ReachFrom(n.ar, {n.start}, {n.start})
\* the reachable states of n with is_final set
ReachableFinals(n) == {q \in Reachable(n) : n.ar.fin[q]}

\* no character class of the AST lists no character at all (as [] or [b-a])
RECURSIVE NoEmptyClass(_)
NoEmptyClass(r) ==
    CASE r.t = "Either" -> Listed(r.characters_and_ranges) # {}
      [] r.t = "Neither" -> Alphabet \ Listed(r.characters_and_ranges) # {}
      [] r.t \in {"Concatenation", "Union"} ->
            NoEmptyClass(r.left) /\ NoEmptyClass(r.right)
      [] r.t = "Repetition" -> NoEmptyClass(r.repeated)
      [] r.t = "Group" -> NoEmptyClass(r.grouped)
      [] OTHER -> TRUE

NFABuilt == nfa # NoneV /\ nfa.ok

\* C31 as stated: among the states reachable from the start of the NFA built
\* by to_nfa exactly one has is_final set, and it is the NFA's final state.
C31_OneReachableFinal ==
    NFABuilt => ReachableFinals(nfa) = {nfa.final}

\* C31, amended: among all states to_nfa created exactly one has is_final
\* set, and it is the NFA's final state (the final states of the
\* sub-fragments have lost finality); no other state reachable from start is
\* final, and the final state is reachable from start unless a character
\* class of the AST lists no character.
C31_OneFinalState ==
    NFABuilt =>
        /\ {q \in 1..Len(nfa.ar.fin) : nfa.ar.fin[q]} = {nfa.final}
        /\ ReachableFinals(nfa) \subseteq {nfa.final}
        /\ NoEmptyClass(regex.ast) => ReachableFinals(nfa) = {nfa.final}

\* the NFA of (ab)+, whose AST holds the object Group(ab) as both operands
\* of a Concatenation, is built and has one final state
C31_Witness ==
    /\ pattern = <<"(", "a", "b", ")", "+">>
    /\ NFABuilt /\ Len(nfa.ar.fin) > 2
    /\ ReachableFinals(nfa) = {nfa.final}


\* the strings the runs of the automata are compared on
RunStrings == Seqs(Alphabet, MaxStr)

\* the NFA states reachable from the states S by epsilon moves, S included
Closure(ar, S) == ReachFrom([ar EXCEPT !.mv = [q \in DOMAIN ar.mv |-> NoMoves]], S, S)
\* the set of NFA states reachable on the string s, taking epsilon closures
RECURSIVE NFAReach(_, _, _)
NFAReach(ar, S, s) ==
    IF s = <<>> THEN S
    ELSE NFAReach(ar,
                  Closure(ar, {ar.mv[q][Head(s)] :
                                  q \in {p \in S : Head(s) \in DOMAIN ar.mv[p]}}),
                  Tail(s))
NFAReachOn(n, s) == NFAReach(n.ar, Closure(n.ar, {n.start}), s)

\* the run of the DFA d on s from state q: the state it ends in, or
\* undefined when a movement is missing
RECURSIVE DFARun(_, _, _)
DFARun(d, q, s) ==
    IF s = <<>> THEN [defined |-> TRUE, state |-> q]
    ELSE IF Head(s) \notin DOMAIN d.movements[q] THEN [defined |-> FALSE, state |-> {}]
    ELSE DFARun(d, d.movements[q][Head(s)], Tail(s))

\* the DFA states reachable from start by movements
RECURSIVE DFAReachFrom(_, _, _)
DFAReachFrom(d, frontier, seen) ==
    IF frontier = {} THEN seen
    ELSE LET moved == UNION {{d.movements[q][c] : c \in DOMAIN d.movements[q]}
                             : q \in frontier}
         IN  DFAReachFrom(d, moved \ seen, seen \cup moved)
DFAReachable(d) == DFAReachFrom(d, {d.start}, {d.start})

DFABuilt == dfa # NoneV /\ nfa # NoneV /\ nfa.ok

\* C32: the DFA built by to_dfa has a run on s ending in a final state iff
\* the set of NFA states reachable on s (with epsilon closures) contains a
\* final NFA state; the run is undefined exactly when that set is empty; and
\* the DFA has exactly one state for each closure it reaches, the start
\* closure included.
C32_SubsetConstruction ==
    DFABuilt =>
        /\ \A s \in RunStrings :
              LET N == NFAReachOn(nfa, s)
                  run == DFARun(dfa, dfa.start, s)
              IN  /\ ~run.defined <=> (N = {})
                  /\ run.defined =>
                        /\ run.state = N
                        /\ dfa.is_final[N] = contains_final(nfa.ar, N)
        /\ dfa.states = DFAReachable(dfa)
        /\ DOMAIN dfa.movements = dfa.states
        /\ DOMAIN dfa.is_final = dfa.states

\* the DFA of a|b* is built: on bb it ends in a final state, on ab its run
\* is undefined
C32_Witness ==
    /\ pattern = <<"a", "|", "b", "*">> /\ DFABuilt
    /\ dfa.is_final[DFARun(dfa, dfa.start, <<"b", "b">>).state]
    /\ ~DFARun(dfa, dfa.start, <<"a", "b">>).defined
    /\ Cardinality(dfa.states) > 2


\* the pairs <<DFA state, table index>> reached together from <<start, 0>>
\* by the movements both have
RECURSIVE PairedFrom(_, _, _, _)
PairedFrom(d, tab, frontier, seen) ==
    IF frontier = {} THEN seen
    ELSE LET moved ==
                 UNION {{<<d.movements[x[1]][c], tab.table[x[2] + 1][c]>> :
                            c \in DOMAIN d.movements[x[1]]
                                  \cap DOMAIN tab.table[x[2] + 1]}
                        : x \in frontier}
         IN  PairedFrom(d, tab, moved \ seen, seen \cup moved)
Paired(d, tab) == PairedFrom(d, tab, {<<d.start, 0>>}, {<<d.start, 0>>})

\* the number of movements of a shortest path from start to the DFA state q
RECURSIVE DepthFrom(_, _, _, _, _)
DepthFrom(d, q, frontier, seen, k) ==
    IF q \in frontier THEN k
    ELSE LET moved == UNION {{d.movements[x][c] : c \in DOMAIN d.movements[x]}
                             : x \in frontier}
         IN  DepthFrom(d, q, moved \ seen, seen \cup moved, k + 1)
Depth(d, q) == DepthFrom(d, q, {d.start}, {d.start}, 0)

TableBuilt == table # NoneV /\ dfa # NoneV

\* C33: to_dfa_table gives every DFA state reachable from start exactly one
\* index in 0..|table|-1 and every index exactly one state, start has index
\* 0, a state nearer to start has the smaller index (breadth-first order),
\* table[i][c] = j exactly when the state of index i moves on c to the state
\* of index j, and the final indices are exactly those of the final states.
C33_TableIndexesStates ==
    TableBuilt =>
        LET P == Paired(dfa, table)
            indices == 0..(Len(table.table) - 1)
        IN  /\ {x[1] : x \in P} = DFAReachable(dfa)
            /\ {x[2] : x \in P} = indices
            /\ \A x, y \in P : (x[1] = y[1]) <=> (x[2] = y[2])
            /\ \A x \in P : DOMAIN table.table[x[2] + 1] = DOMAIN dfa.movements[x[1]]
            /\ \A x, y \in P : Depth(dfa, x[1]) < Depth(dfa, y[1]) => x[2] < y[2]
            /\ table.finals = {x[2] : x \in {y \in P : dfa.is_final[y[1]]}}

\* the table of (ab)+ is built: three states, the third one final
C33_Witness ==
    /\ pattern = <<"(", "a", "b", ")", "+">> /\ TableBuilt
    /\ Len(table.table) >= 3
    /\ table.finals # {} /\ 0 \notin table.finals


\* C34: Union(Epsilon, r) is r with r's own operands: the AST parsed from
\* union followed by a pattern p is the AST parsed from p, also when that
\* AST is itself a Union (as for |a|b).
C34_EpsilonOperandReturnsOther ==
    (regex # NoneV /\ regex.ok /\ pattern # <<>> /\ Head(pattern) = union) =>
        LET other_operand == parse(Tail(pattern)) IN
        other_operand.ok => regex.ast = other_operand.ast


C36_NFAMatchReturns ==
    m_nfa # NoneV => m_nfa.pc # "raised"


\* C37: every token the tokenizer emits has a non-empty lexeme, so the
\* cursor grows with every token and at most |string| tokens are emitted.
C37_TokensNotEmpty ==
    /\ \A i \in 1..Len(tokens) :
          /\ tokens[i].lexeme # <<>>
          /\ tokens[i].end > tokens[i].start
    /\ Len(tokens) <= Len(string)

\* C38: the spans of the tokens emitted tile the consumed input: the first
\* starts at 0, every following one starts where the one before it ended,
\* each lexeme is string[start:end], the cursor is the end of the last token
\* and the input still to consume is string[cursor:], so that tokenizing
\* completes only with the cursor, and the end of the last span, at |string|.
C38_SpansTile ==
    /\ \A i \in 1..Len(tokens) :
          /\ tokens[i].start = (IF i = 1 THEN 0 ELSE tokens[i - 1].end)
          /\ tokens[i].start <= tokens[i].end /\ tokens[i].end <= Len(string)
          /\ tokens[i].lexeme = Slice(string, tokens[i].start, tokens[i].end)
    /\ tgen # NoneV =>
          /\ tgen.string = From(string, tgen.start)
          /\ (tgen.pc = "yield" /\ Len(tokens) < MaxEmit) =>
                (tgen.token = tokens[Len(tokens)] /\ tgen.start = tgen.token.end)
          /\ (tokens = <<>>) => tgen.start = 0
          /\ tgen.pc = "done" =>
                /\ tgen.start = Len(string)
                /\ (tokens # <<>> /\ Len(tokens) < MaxEmit) =>
                      tokens[Len(tokens)].end = Len(string)

\* two tokens have been emitted, the first with a non-empty lexeme, the
\* second starting where the first ended
C38_Witness ==
    /\ Len(tokens) >= 2
    /\ tokens[1].start = 0 /\ tokens[1].end > 0
    /\ tokens[2].start = tokens[1].end
    /\ tokens[1].lexeme = Slice(string, 0, tokens[1].end)


\* C39: for concurrent operations op and other on the same document, at
\* least one of them a Delete, the site that applies op and then the
\* operations of other.include(op) and the site that applies other and then
\* the operations of op.include(other) end with the same document.
C39_ConvergenceWithDeletes ==
    (/\ op.t = "Delete" \/ other.t = "Delete"
     /\ site1 # NoneV /\ site1.done
     /\ site2 # NoneV /\ site2.done)
    => site1.doc = site2.doc

=============================================================================
